---- MODULE Spec2Model ----
(***************************************************************************)
(* Model of the support-desk backend: the accounts, the user_roles table   *)
(* with its row-level INSERT policies, the security audit log, the         *)
(* invite-staff and setup-demo-accounts edge functions, and the tickets    *)
(* table with its row-level policies.                                      *)
(*                                                                         *)
(* Every edge function is modelled one backend call at a time: a step of a *)
(* handler is one awaited call together with the synchronous code that     *)
(* follows it up to the next awaited call (or up to the response).         *)
(***************************************************************************)
EXTENDS Integers, Sequences, FiniteSets, TLC

\* ---------------------------------------------------------------- bounds
MaxAudit == 1        \* rows of security_audit_log
MaxTickets == 2      \* rows of tickets
MaxSelected == 4     \* files in selectedFiles
MaxOffered == 2      \* files offered by one file-input change
MaxMessages == 2     \* rows of messages
MaxMedia == 2        \* rows of media_assets
MaxBusy == 1         \* messages and selected files where the forms are used in turn
MaxRows == 4         \* filtered tickets of three subjects given to fetchCommonIssues

\* ------------------------------------------------------------- constants
adminEmail == "admin@example.com"
staffEmail == "staff@example.com"
Emails == {adminEmail, staffEmail, "new@example.com"}

\* the enum type app_role: created with 'student' and 'staff'; the label
\* 'admin' is the one the later policies and can_invite_staff compare with
app_role == {"student", "staff", "admin"}

\* values of the "role" field a request body can carry
BodyRoles == {"student", "staff", "admin"}
Malformed == [email |-> "", role |-> "malformed"]   \* req.json() throws on it
NotRead == [email |-> "", role |-> "unread"]        \* the body before req.json()
\* the bodies sent: an email already in use or a new one, with every role
Bodies == [email : {adminEmail, "new@example.com"}, role : BodyRoles]
             \cup {Malformed}

\* an email has at most one account, so there are at most as many accounts
Uids == 1..Cardinality(Emails)

\* what a request presents: no Authorization header, a token that resolves
\* to no user (uid 0), or the token of user uid
NoHeader == [header |-> FALSE, uid |-> 0]
Auths == {NoHeader} \cup [header : {TRUE}, uid : {0} \cup Uids]
\* the two setup-demo-accounts invocations that may run concurrently
Seeders == {1, 2}

VARIABLES
    users,               \* auth.users: users[uid] is the account's email
    user_roles,          \* public.user_roles: set of <<user_id, role>>
    security_audit_log,  \* sequence of [user_id, action]; user_id 0 is null
    inv,                 \* the invite-staff invocation: locals and position
    seed,                \* setup-demo-accounts invocations
    seeded,              \* history: a setup-demo-accounts invocation returned 200
    tickets,             \* public.tickets: tickets[id] = [student_id, status]
    ticket_status,       \* the labels of the enum type ticket_status
    messages,            \* public.messages: messages[id] = [ticket_id, sender_id]
    media_assets,        \* public.media_assets: [message_id, storage_path]
    objects,             \* storage.objects of ticket-attachments: set of names
    selectedFiles,       \* the selectedFiles state of a form
    thread,              \* the TicketThread page of one browser session
    newTicket,           \* the NewTicket page of one browser session
    send,                \* the reply form of the TicketThread page
    view,                \* the message list of the TicketThread page
    inviteForm,          \* the InviteStaff form of the staff dashboard
    dash,                \* what a dashboard computed from its last fetch
    op                   \* history: who performed the last step, and how

accountVars == <<users, user_roles, security_audit_log, inv, seed, seeded>>
ticketVars == <<tickets, ticket_status>>
threadVars == <<messages, media_assets, objects>>
pageVars == <<selectedFiles, thread, newTicket, send, view, inviteForm,
              dash>>
vars == <<accountVars, ticketVars, threadVars, pageVars, op>>

\* ------------------------------------------------------ database helpers
UserIds == DOMAIN users
EmailsInUse == {users[u] : u \in UserIds}
UserByEmail(e) == {u \in UserIds : users[u] = e}

\* public.has_role(_user_id, _role)
has_role(_user_id, _role) == <<_user_id, _role>> \in user_roles

\* the roles a user holds
RolesOf(u) == {r \in app_role : <<u, r>> \in user_roles}

\* variant: the predicate satisfied by any role
can_invite_staff_AnyRole(_user_id) ==
    \E r \in {"student", "staff", "admin"} : <<_user_id, r>> \in user_roles

\* public.can_invite_staff(_user_id)
can_invite_staff(_user_id) ==
    \E r \in {"staff", "admin"} : <<_user_id, r>> \in user_roles

\* variant: the policy without its check of the role
StudentRolePolicy_AnyRole(uid, row) == row[1] = uid

\* policy "Users can insert their own student role"
StudentRolePolicy(uid, row) == row[1] = uid /\ row[2] = "student"

\* variant: the policy without its check of the inserting user
StaffRolePolicy_AnyUser(uid, row) == row[2] \in {"staff", "admin"}

\* policy "Staff/admin can create staff/admin roles"
StaffRolePolicy(uid, row) ==
    row[2] \in {"staff", "admin"} /\ can_invite_staff(uid)

\* INSERT policies are permissive: a row passes when one of them passes
UserRolesInsertAllowed(uid, row) ==
    StudentRolePolicy(uid, row) \/ StaffRolePolicy(uid, row)

\* table constraints of user_roles: foreign key to the account, UNIQUE
UserRolesConstraints(row) ==
    /\ row[1] \in UserIds
    /\ row[2] \in app_role
    /\ row \notin user_roles

\* variant: accounts that may share an email
CanCreateUser_Duplicates(e) == e \in Emails

\* auth.admin.createUser / auth.signUp succeed only for an unused email
CanCreateUser(e) == e \in Emails /\ e \notin EmailsInUse

\* logSecurityEvent: the insert's outcome is ignored by the caller. ok = FALSE
\* is a failed insert.
logSecurityEvent(userId, action, ok) ==
    IF ok
    THEN Append(security_audit_log, [user_id |-> userId, action |-> action])
    ELSE security_audit_log

\* the enum type ticket_status as first created, and after the migration
ticket_status_old == {"pending", "resolved"}
ticket_status_new == {"pending", "in_progress", "completed"}

\* op after a step of an edge function (service credential, no auth.uid())
ServerOp == [via |-> "server", actor |-> 0]

\* ----------------------------------------------------------------- Init
InvIdle == [pc |-> "idle", auth |-> NoHeader, body |-> NotRead, user |-> 0,
            newUser |-> 0, roleInserted |-> FALSE, status |-> 0]
\* history: after200, the invocation began after one had returned 200;
\* listed, its listUsers call succeeded
SeedIdle == [pc |-> "idle", adminExists |-> FALSE, staffExists |-> FALSE,
             adminUser |-> 0, staffUser |-> 0, status |-> 0,
             after200 |-> FALSE, listed |-> FALSE]

\* the TicketThread page before a ticket is opened
ThreadClosed == [user |-> 0, id |-> 0, userRole |-> "none", status |-> "none",
                 fetching |-> FALSE, isResolving |-> FALSE, toast |-> "none"]
\* the NewTicket page before the form is submitted: files are the files the
\* running handleSubmit iterates over, k of which it has finished
NewTicketIdle == [pc |-> "idle", user |-> 0, ticket |-> 0, message |-> 0,
                  files |-> <<>>, k |-> 0, isLoading |-> FALSE,
                  navigated |-> 0, toast |-> "none"]
\* the reply form before a message is sent: newMessage tells whether the
\* textarea holds text
SendIdle == [pc |-> "idle", user |-> 0, ticket |-> 0, message |-> 0,
             files |-> <<>>, k |-> 0, newMessage |-> FALSE,
             isSending |-> FALSE, isUploading |-> FALSE, toast |-> "none"]
\* the message list before a ticket is opened: the list shown, the results
\* of the fetches in flight and the change notifications not yet delivered
ViewClosed == [messages |-> <<>>, fetches |-> {}, events |-> 0,
               toast |-> "none"]
\* the InviteStaff form before it is submitted
InviteFormIdle == [loading |-> FALSE, toast |-> "none"]

\* no message, media asset or stored object yet
InitThreadVars ==
    /\ messages = <<>>
    /\ media_assets = <<>>
    /\ objects = {}

\* the pages as first rendered
InitPageVars ==
    /\ selectedFiles = <<>>
    /\ thread = ThreadClosed
    /\ newTicket = NewTicketIdle
    /\ send = SendIdle
    /\ view = ViewClosed
    /\ inviteForm = InviteFormIdle
    /\ dash = [kind |-> "none"]

\* the database as deployed: the two demo accounts are seeded
Init ==
    /\ users = <<adminEmail, staffEmail>>
    /\ user_roles = {<<1, "admin">>, <<2, "staff">>}
    /\ security_audit_log = <<>>
    /\ inv = InvIdle
    /\ seed = [p \in Seeders |-> SeedIdle]
    /\ seeded = TRUE
    /\ tickets = <<>>
    /\ ticket_status = ticket_status_old
    /\ InitThreadVars
    /\ InitPageVars
    /\ op = [via |-> "init", actor |-> 0]

\* ------------------------------------------------- account operations
\* Auth.tsx handleSignUp: the public sign-up creates an account; it writes
\* no user_roles row with the service credential
SignUp(e) ==
    /\ CanCreateUser(e)
    /\ users' = Append(users, e)
    /\ op' = [via |-> "signup", actor |-> 0]
    /\ UNCHANGED <<user_roles, security_audit_log, inv, seed, seeded, ticketVars, threadVars, pageVars>>

\* a signed-in user inserts a row into user_roles with their own
\* credential; the row-level INSERT policies decide
DirectInsertRole(uid, row) ==
    /\ uid \in UserIds
    /\ UserRolesInsertAllowed(uid, row)
    /\ UserRolesConstraints(row)
    /\ user_roles' = user_roles \cup {row}
    /\ op' = [via |-> "direct", actor |-> uid]
    /\ UNCHANGED <<users, security_audit_log, inv, seed, seeded, ticketVars, threadVars, pageVars>>

\* ------------------------------------------------------- invite-staff
\* a finished invocation: the response and, before it, the audit record
InviteEnd(r, status, action, logOk) ==
    /\ inv' = [r EXCEPT !.pc = "done", !.status = status]
    /\ security_audit_log' = logSecurityEvent(r.user, action, logOk)

\* if (!authHeader)
NoAuthHeader(r) == ~r.auth.header

\* the request arrives (not OPTIONS); the Authorization header is read
InviteReceive(auth, logOk) ==
    /\ inv.pc = "idle"
    /\ Len(security_audit_log) < MaxAudit
    /\ auth \in Auths /\ auth.uid \in {0} \cup UserIds
    /\ LET r == [InvIdle EXCEPT !.auth = auth] IN
       IF NoAuthHeader(r)
       THEN /\ inv' = [r EXCEPT !.pc = "done", !.status = 401]
            /\ security_audit_log' = logSecurityEvent(0, "invite_staff_no_auth", logOk)
       ELSE /\ inv' = [r EXCEPT !.pc = "getUser"]
            /\ UNCHANGED security_audit_log
    /\ op' = ServerOp
    /\ UNCHANGED <<users, user_roles, seed, seeded, ticketVars, threadVars, pageVars>>

\* auth.getUser(token): the token's user, or none
TokenUser(r) == IF r.auth.uid \in UserIds THEN r.auth.uid ELSE 0

\* variant: the handler without "if (userError || !user)"
InviteGetUser_NoUserCheck(ok, logOk) ==
    /\ inv.pc = "getUser"
    /\ inv' = [inv EXCEPT !.pc = "canInvite",
                          !.user = IF ok THEN TokenUser(inv) ELSE 0]
    /\ op' = ServerOp
    /\ UNCHANGED <<users, user_roles, security_audit_log, seed, seeded, ticketVars, threadVars, pageVars>>

\* ok = FALSE is a failed call (userError)
InviteGetUser(ok, logOk) ==
    /\ inv.pc = "getUser"
    /\ LET user == IF ok THEN TokenUser(inv) ELSE 0 IN
       IF user = 0
       THEN InviteEnd(inv, 401, "invite_staff_invalid_token", logOk)
       ELSE /\ inv' = [inv EXCEPT !.pc = "canInvite", !.user = user]
            /\ UNCHANGED security_audit_log
    /\ op' = ServerOp
    /\ UNCHANGED <<users, user_roles, seed, seeded, ticketVars, threadVars, pageVars>>

\* variant: every label of app_role is accepted
InvalidRole_AnyAppRole(role) == role \notin {"student", "staff", "admin"}

\* !['staff', 'admin'].includes(role)
InvalidRole(role) == role \notin {"staff", "admin"}

\* variant: a failed call read as a granted permission
HasPermission_FailOpen(r, rpcOk) == ~rpcOk \/ can_invite_staff(r.user)

\* data of rpc('can_invite_staff', {_user_id: user.id}), null when it failed
HasPermission(r, rpcOk) == rpcOk /\ can_invite_staff(r.user)

\* variant: the admin guard satisfied by staff
IsAdmin_StaffSuffices(r, rpcOk) == rpcOk /\ can_invite_staff(r.user)

\* data of rpc('has_role', {_user_id: user.id, _role: 'admin'})
IsAdmin(r, rpcOk) == rpcOk /\ has_role(r.user, "admin")

\* variant: the body read and the role validated before the permission check
InviteCanInvite_BodyFirst(rpcOk, body, logOk) ==
    /\ inv.pc = "canInvite"
    /\ LET hasPermission == HasPermission(inv, rpcOk)
           r == [inv EXCEPT !.body = body]
       IN  IF r.body = Malformed
           THEN /\ inv' = [r EXCEPT !.pc = "done", !.status = 500]
                /\ UNCHANGED security_audit_log
           ELSE IF InvalidRole(r.body.role)
           THEN InviteEnd(r, 400, "invite_staff_invalid_role", logOk)
           ELSE IF ~hasPermission
           THEN InviteEnd(r, 403,
                          "invite_staff_privilege_escalation_attempt", logOk)
           ELSE /\ inv' = [r EXCEPT !.pc =
                              IF r.body.role = "admin" THEN "hasRole" ELSE "createUser"]
                /\ UNCHANGED security_audit_log
    /\ op' = ServerOp
    /\ UNCHANGED <<users, user_roles, seed, seeded, ticketVars, threadVars, pageVars>>

\* rpc('can_invite_staff'); then the body is read and the role validated.
\* rpcOk = FALSE is a failed call, whose data is null. The body is what the
\* caller sent; the handler sees it only here, at req.json().
InviteCanInvite(rpcOk, body, logOk) ==
    /\ inv.pc = "canInvite"
    /\ LET hasPermission == HasPermission(inv, rpcOk)
           r == IF hasPermission THEN [inv EXCEPT !.body = body] ELSE inv
       IN  IF ~hasPermission
           THEN InviteEnd(r, 403,
                          "invite_staff_privilege_escalation_attempt", logOk)
           ELSE IF r.body = Malformed
           THEN \* req.json() throws: the catch block answers, nothing is logged
                /\ inv' = [r EXCEPT !.pc = "done", !.status = 500]
                /\ UNCHANGED security_audit_log
           ELSE IF InvalidRole(r.body.role)
           THEN InviteEnd(r, 400, "invite_staff_invalid_role", logOk)
           ELSE /\ inv' = [r EXCEPT !.pc =
                              IF r.body.role = "admin" THEN "hasRole" ELSE "createUser"]
                /\ UNCHANGED security_audit_log
    /\ op' = ServerOp
    /\ UNCHANGED <<users, user_roles, seed, seeded, ticketVars, threadVars, pageVars>>

\* rpc('has_role', admin) for a requested admin role
InviteHasRole(rpcOk, logOk) ==
    /\ inv.pc = "hasRole"
    /\ LET r == inv
           isAdmin == IsAdmin(r, rpcOk)
       IN  IF ~isAdmin
           THEN InviteEnd(r, 403, "invite_admin_escalation_attempt", logOk)
           ELSE /\ inv' = [inv EXCEPT !.pc = "createUser"]
                /\ UNCHANGED security_audit_log
    /\ op' = ServerOp
    /\ UNCHANGED <<users, user_roles, seed, seeded, ticketVars, threadVars, pageVars>>

\* auth.admin.createUser({email, ...}); ok = FALSE is a failed call
InviteCreateUser(ok, logOk) ==
    /\ inv.pc = "createUser"
    /\ LET r == inv IN
       IF ok /\ CanCreateUser(r.body.email)
       THEN /\ users' = Append(users, r.body.email)
            /\ inv' = [inv EXCEPT !.pc = "insertRole",
                                  !.newUser = Len(users) + 1]
            /\ UNCHANGED security_audit_log
       ELSE /\ InviteEnd(r, 400, "invite_staff_creation_failed", logOk)
            /\ UNCHANGED users
    /\ op' = ServerOp
    /\ UNCHANGED <<user_roles, seed, seeded, ticketVars, threadVars, pageVars>>

\* from('user_roles').insert({user_id: newUser.user.id, role}) with the
\* service credential (no row-level policy applies), then the response
InviteInsertRole(ok, logOk) ==
    /\ inv.pc = "insertRole"
    /\ LET r == inv
           row == <<r.newUser, r.body.role>>
       IN  IF ok /\ UserRolesConstraints(row)
           THEN /\ user_roles' = user_roles \cup {row}
                /\ inv' = [inv EXCEPT !.pc = "done", !.status = 200,
                                      !.roleInserted = TRUE]
                /\ security_audit_log' =
                       logSecurityEvent(r.user, "invite_staff_success", logOk)
           ELSE /\ InviteEnd(r, 500,
                             "invite_staff_role_assignment_failed", logOk)
                /\ UNCHANGED user_roles
    /\ op' = ServerOp
    /\ UNCHANGED <<users, seed, seeded, ticketVars, threadVars, pageVars>>

\* the response has been delivered; the invocation is over
InviteReturn ==
    /\ inv.pc = "done"
    /\ inv' = InvIdle
    /\ op' = ServerOp
    /\ UNCHANGED <<users, user_roles, security_audit_log, seed, seeded, ticketVars, threadVars, pageVars>>

\* ------------------------------------------------- setup-demo-accounts
\* the catch block: status 500
SeedFail(p) ==
    /\ seed' = [seed EXCEPT ![p].pc = "done", ![p].status = 500]
    /\ UNCHANGED seeded

\* the success response: status 200
SeedSucceed(p, r) ==
    /\ seed' = [seed EXCEPT ![p] = [r EXCEPT !.pc = "done", !.status = 200]]
    /\ seeded' = TRUE

\* variant: the staff branch without "if (!staffExists)"
SeedAfterAdmin_NoStaffCheck(p, r) ==
    /\ seed' = [seed EXCEPT ![p] = [r EXCEPT !.pc = "createStaff"]]
    /\ UNCHANGED seeded

\* after the admin branch: the staff branch, decided by the listing that
\* was fetched at the start
SeedAfterAdmin(p, r) ==
    IF ~r.staffExists
    THEN /\ seed' = [seed EXCEPT ![p] = [r EXCEPT !.pc = "createStaff"]]
         /\ UNCHANGED seeded
    ELSE SeedSucceed(p, r)

\* auth.admin.listUsers(): ok = FALSE is a failed call, which lists nobody
\* (its error is not looked at)
SeedListUsers(p, ok) ==
    /\ seed[p].pc = "idle"
    /\ LET existingAdmin == IF ok THEN EmailsInUse ELSE {}
           r == [SeedIdle EXCEPT !.adminExists = adminEmail \in existingAdmin,
                                 !.staffExists = staffEmail \in existingAdmin,
                                 !.after200 = seeded, !.listed = ok]
       IN  IF ~r.adminExists
           THEN /\ seed' = [seed EXCEPT ![p] = [r EXCEPT !.pc = "createAdmin"]]
                /\ UNCHANGED seeded
           ELSE SeedAfterAdmin(p, r)
    /\ op' = ServerOp
    /\ UNCHANGED <<users, user_roles, security_audit_log, inv, ticketVars, threadVars, pageVars>>

\* variant: createUser without the rejection of an email already in use
SeedCreateAdmin_NoUniqueEmail(p, ok) ==
    /\ seed[p].pc = "createAdmin"
    /\ users' = Append(users, adminEmail)
    /\ seed' = [seed EXCEPT ![p].pc = "adminRole",
                            ![p].adminUser = Len(users) + 1]
    /\ UNCHANGED seeded
    /\ op' = ServerOp
    /\ UNCHANGED <<user_roles, security_audit_log, inv, ticketVars, threadVars, pageVars>>

\* createUser({email: adminEmail, ...}); throws adminError on failure
SeedCreateAdmin(p, ok) ==
    /\ seed[p].pc = "createAdmin"
    /\ IF ok /\ CanCreateUser(adminEmail)
       THEN /\ users' = Append(users, adminEmail)
            /\ seed' = [seed EXCEPT ![p].pc = "adminRole",
                                    ![p].adminUser = Len(users) + 1]
            /\ UNCHANGED seeded
       ELSE /\ SeedFail(p)
            /\ UNCHANGED users
    /\ op' = ServerOp
    /\ UNCHANGED <<user_roles, security_audit_log, inv, ticketVars, threadVars, pageVars>>

\* insert({user_id: adminUser.user.id, role: 'admin'}); throws on failure
SeedAdminRole(p, ok) ==
    /\ seed[p].pc = "adminRole"
    /\ LET row == <<seed[p].adminUser, "admin">> IN
       IF ok /\ UserRolesConstraints(row)
       THEN /\ user_roles' = user_roles \cup {row}
            /\ SeedAfterAdmin(p, seed[p])
       ELSE /\ SeedFail(p)
            /\ UNCHANGED user_roles
    /\ op' = ServerOp
    /\ UNCHANGED <<users, security_audit_log, inv, ticketVars, threadVars, pageVars>>

\* createUser({email: staffEmail, ...}); throws staffError on failure
SeedCreateStaff(p, ok) ==
    /\ seed[p].pc = "createStaff"
    /\ IF ok /\ CanCreateUser(staffEmail)
       THEN /\ users' = Append(users, staffEmail)
            /\ seed' = [seed EXCEPT ![p].pc = "staffRole",
                                    ![p].staffUser = Len(users) + 1]
            /\ UNCHANGED seeded
       ELSE /\ SeedFail(p)
            /\ UNCHANGED users
    /\ op' = ServerOp
    /\ UNCHANGED <<user_roles, security_audit_log, inv, ticketVars, threadVars, pageVars>>

\* insert({user_id: staffUser.user.id, role: 'staff'}), then the response
SeedStaffRole(p, ok) ==
    /\ seed[p].pc = "staffRole"
    /\ LET row == <<seed[p].staffUser, "staff">> IN
       IF ok /\ UserRolesConstraints(row)
       THEN /\ user_roles' = user_roles \cup {row}
            /\ SeedSucceed(p, seed[p])
       ELSE /\ SeedFail(p)
            /\ UNCHANGED user_roles
    /\ op' = ServerOp
    /\ UNCHANGED <<users, security_audit_log, inv, ticketVars, threadVars, pageVars>>

\* the response has been delivered; the invocation is over
SeedReturn(p) ==
    /\ seed[p].pc = "done"
    /\ seed' = [seed EXCEPT ![p] = SeedIdle]
    /\ op' = ServerOp
    /\ UNCHANGED <<users, user_roles, security_audit_log, inv, seeded, ticketVars, threadVars, pageVars>>

\* ---------------------------------------------------------- tickets
TicketIds == DOMAIN tickets

\* policy "Students can create tickets": WITH CHECK (auth.uid() = student_id)
TicketsInsertPolicy(uid, row) == uid = row.student_id

\* variant: the owner of a ticket may update it too
TicketsUpdatePolicy_Owner(uid, t) ==
    has_role(uid, "staff") \/ tickets[t].student_id = uid

\* policy "Staff can update ticket status": USING / WITH CHECK
\* has_role(auth.uid(), 'staff')
TicketsUpdatePolicy(uid, t) == has_role(uid, "staff")

\* a signed-in user inserts a ticket row (NewTicket.tsx handleSubmit sends
\* student_id = user.id and status 'pending'); the column type and the
\* foreign key to the account must accept the row
InsertTicket(uid, row) ==
    /\ uid \in UserIds
    /\ Len(tickets) < MaxTickets
    /\ TicketsInsertPolicy(uid, row)
    /\ row.student_id \in UserIds
    /\ row.status \in ticket_status
    /\ tickets' = Append(tickets, row)
    /\ op' = [via |-> "ticket_insert", actor |-> uid]
    /\ UNCHANGED <<accountVars, ticket_status, threadVars, pageVars>>

\* from('tickets').update({status}).eq('id', t) with the user's own
\* credential: rows the policy hides are not updated, a label that is not of
\* the enum type is an error
UpdateTicketStatus(uid, t, status) ==
    /\ uid \in UserIds
    /\ t \in TicketIds
    /\ tickets' = IF TicketsUpdatePolicy(uid, t) /\ status \in ticket_status
                  THEN [tickets EXCEPT ![t].status = status]
                  ELSE tickets
    /\ op' = [via |-> "ticket_update", actor |-> uid]
    /\ UNCHANGED <<accountVars, ticket_status, threadVars, pageVars>>

\* variant: the column converted without the CASE on 'resolved'
MigrateTicketStatus_KeepLabels ==
    /\ ticket_status = ticket_status_old
    /\ ticket_status' = ticket_status_new
    /\ op' = ServerOp
    /\ UNCHANGED <<accountVars, tickets, threadVars, pageVars>>

\* the migration of ticket_status: 'resolved' becomes 'completed'
MigrateTicketStatus ==
    /\ ticket_status = ticket_status_old
    /\ ticket_status' = ticket_status_new
    /\ tickets' = [t \in TicketIds |->
                     [tickets[t] EXCEPT !.status =
                         IF @ = "resolved" THEN "completed" ELSE @]]
    /\ op' = ServerOp
    /\ UNCHANGED <<accountVars, threadVars, pageVars>>

\* ------------------------------------------- the audit log and its users
\* policy "Only admins can view audit logs"
AuditSelectPolicy(uid) == has_role(uid, "admin")

\* variant: a policy that lets admins change audit rows
AuditWritePolicy_Admin(uid) == has_role(uid, "admin")

\* security_audit_log has row-level security enabled and no UPDATE or DELETE
\* policy: no row is visible to a user's UPDATE or DELETE
AuditWritePolicy(uid) == FALSE

\* actions a client may pass to log_security_event
ClientAuditActions == {"client_event"}

\* rpc log_security_event(_action, _details, _ip_address): SECURITY DEFINER,
\* inserts a row with user_id = auth.uid()
log_security_event(uid, _action) ==
    /\ uid \in UserIds
    /\ Len(security_audit_log) < MaxAudit
    /\ security_audit_log' =
           Append(security_audit_log, [user_id |-> uid, action |-> _action])
    /\ op' = [via |-> "log_security_event", actor |-> uid]
    /\ UNCHANGED <<users, user_roles, inv, seed, seeded, ticketVars, threadVars, pageVars>>

\* a user's UPDATE of the action of audit row i with their own credential
UpdateAuditLog(uid, i, _action) ==
    /\ uid \in UserIds
    /\ i \in DOMAIN security_audit_log
    /\ security_audit_log' =
           IF AuditWritePolicy(uid)
           THEN [security_audit_log EXCEPT ![i].action = _action]
           ELSE security_audit_log
    /\ op' = [via |-> "audit_update", actor |-> uid]
    /\ UNCHANGED <<users, user_roles, inv, seed, seeded, ticketVars, threadVars, pageVars>>

\* a user's DELETE of audit row i with their own credential
DeleteAuditLog(uid, i) ==
    /\ uid \in UserIds
    /\ i \in DOMAIN security_audit_log
    /\ security_audit_log' =
           IF AuditWritePolicy(uid)
           THEN [j \in 1..(Len(security_audit_log) - 1) |->
                    security_audit_log[IF j < i THEN j ELSE j + 1]]
           ELSE security_audit_log
    /\ op' = [via |-> "audit_delete", actor |-> uid]
    /\ UNCHANGED <<users, user_roles, inv, seed, seeded, ticketVars, threadVars, pageVars>>

\* ------------------------------------------------------- file selection
\* File.type as <<type, subtype>>, the two sides of the "/"
MimeTypes == {<<"image", "png">>, <<"image", "gif">>,
              <<"application", "pdf">>, <<"text", "plain">>}
FileSizes == {5 * 1024 * 1024, 5 * 1024 * 1024 + 1}
Files == [type : MimeTypes, size : FileSizes]

\* file.type.startsWith('image/') || file.type === 'application/pdf'
isValidType(file) ==
    file.type[1] = "image" \/ file.type = <<"application", "pdf">>

\* file.size <= 5 * 1024 * 1024
isValidSize(file) == file.size <= 5 * 1024 * 1024

\* the filter's predicate: return isValidType && isValidSize
IsValidFile(file) == isValidType(file) /\ isValidSize(file)

\* files.filter(...)
validFiles(files) == SelectSeq(files, IsValidFile)

\* handleFileSelect: setSelectedFiles(prev => [...prev, ...validFiles])
handleFileSelect(files) ==
    /\ Len(selectedFiles) + Len(validFiles(files)) <= MaxSelected
    /\ selectedFiles' = selectedFiles \o validFiles(files)
    /\ op' = [via |-> "handleFileSelect", actor |-> 0, files |-> files]
    /\ UNCHANGED <<accountVars, ticketVars, threadVars, thread, newTicket,
                   send, view, inviteForm, dash>>

\* removeFile: setSelectedFiles(prev => prev.filter((_, i) => i !== index)),
\* index counted from 0
removeFile(index) ==
    /\ index + 1 \in DOMAIN selectedFiles
    /\ selectedFiles' = [j \in 1..(Len(selectedFiles) - 1) |->
                            selectedFiles[IF j < index + 1 THEN j ELSE j + 1]]
    /\ op' = [via |-> "removeFile", actor |-> 0, files |-> <<>>]
    /\ UNCHANGED <<accountVars, ticketVars, threadVars, thread, newTicket,
                   send, view, inviteForm, dash>>

\* the bucket ticket-attachments: file_size_limit and allowed_mime_types
file_size_limit == 5242880
allowed_mime_types == {<<"image", "jpeg">>, <<"image", "png">>,
                       <<"image", "webp">>, <<"application", "pdf">>}

\* an upload the bucket accepts
BucketAccepts(file) ==
    file.size <= file_size_limit /\ file.type \in allowed_mime_types

\* ---------------------------- messages, media assets and stored objects
MessageIds == DOMAIN messages
MediaIds == DOMAIN media_assets

\* names of stored objects: <<first folder, rest of the path>>
Paths == Uids \X {1}

\* policies "Students can view their own tickets" and "Staff can view all
\* tickets" (permissive: one of them suffices)
TicketsSelectPolicy(uid, t) ==
    tickets[t].student_id = uid \/ has_role(uid, "staff")

\* variant: the sub-query without its condition on the user
TicketAccessible_Any(uid, t) == t \in TicketIds

\* EXISTS (SELECT 1 FROM tickets WHERE tickets.id = t AND
\*         (tickets.student_id = auth.uid() OR has_role(auth.uid(), 'staff')))
TicketAccessible(uid, t) ==
    /\ t \in TicketIds
    /\ tickets[t].student_id = uid \/ has_role(uid, "staff")

\* policy "Users can view messages from their tickets"
MessagesSelectPolicy(uid, m) == TicketAccessible(uid, messages[m].ticket_id)

\* policy "Users can create messages in their tickets"
MessagesInsertPolicy(uid, row) ==
    uid = row.sender_id /\ TicketAccessible(uid, row.ticket_id)

\* variant: a policy that lets the sender change or delete a message
MessagesWritePolicy_Sender(uid, m) == messages[m].sender_id = uid

\* messages has row-level security enabled and no UPDATE or DELETE policy
MessagesWritePolicy(uid, m) == FALSE

\* policy "Users can view media from accessible messages"
MediaSelectPolicy(uid, a) ==
    \E m \in MessageIds :
        /\ m = media_assets[a].message_id
        /\ TicketAccessible(uid, messages[m].ticket_id)

\* policy "Users can create media for their messages"
MediaInsertPolicy(uid, row) ==
    \E m \in MessageIds : m = row.message_id /\ messages[m].sender_id = uid

\* media_assets has row-level security enabled and no UPDATE or DELETE policy
MediaWritePolicy(uid, a) == FALSE

\* policy "Users can view files from accessible tickets" on storage.objects
ObjectsSelectPolicy(uid, name) ==
    \E a \in MediaIds, m \in MessageIds :
        /\ m = media_assets[a].message_id
        /\ media_assets[a].storage_path = name
        /\ messages[m].ticket_id \in TicketIds
        /\ \/ tickets[messages[m].ticket_id].student_id = uid
           \/ has_role(uid, "staff")

\* policy "Users can upload files for their messages":
\* auth.uid()::text = (storage.foldername(name))[1]
ObjectsInsertPolicy(uid, name) == name[1] = uid

\* the rows select('*').eq('ticket_id', t).order('created_at', {ascending:
\* true}) returns to uid: the messages of t the SELECT policy shows, oldest
\* first
StoredMessages(uid, t) ==
    LET Shown(m) == messages[m].ticket_id = t /\ MessagesSelectPolicy(uid, m)
    IN  SelectSeq([m \in 1..Len(messages) |-> m], Shown)

\* the open page's subscription to INSERT on messages with ticket_id=eq.id:
\* an inserted row the subscriber may read adds a change notification
MessageInserted(row) ==
    IF thread.id = row.ticket_id /\ TicketAccessible(thread.user, row.ticket_id)
    THEN [view EXCEPT !.events = @ + 1]
    ELSE view

\* s without its element i
Without(s, i) == [j \in 1..(Len(s) - 1) |-> s[IF j < i THEN j ELSE j + 1]]

\* a signed-in user inserts a message row with their own credential (as
\* handleSendMessage does, with sender_id = user.id)
InsertMessage(uid, row) ==
    /\ uid \in UserIds
    /\ Len(messages) < MaxMessages
    /\ messages' = IF /\ MessagesInsertPolicy(uid, row)
                      /\ row.ticket_id \in TicketIds /\ row.sender_id \in UserIds
                   THEN Append(messages, row)
                   ELSE messages
    /\ view' = IF messages' # messages THEN MessageInserted(row) ELSE view
    /\ op' = [via |-> "message_insert", actor |-> uid, row |-> row]
    /\ UNCHANGED <<accountVars, ticketVars, media_assets, objects,
                   selectedFiles, thread, newTicket, send, inviteForm, dash>>

\* a user's UPDATE of message m with their own credential
UpdateMessage(uid, m, row) ==
    /\ uid \in UserIds
    /\ m \in MessageIds
    /\ messages' = IF MessagesWritePolicy(uid, m)
                   THEN [messages EXCEPT ![m] = row]
                   ELSE messages
    /\ op' = [via |-> "message_update", actor |-> uid, target |-> m]
    /\ UNCHANGED <<accountVars, ticketVars, media_assets, objects, pageVars>>

\* a user's DELETE of message m with their own credential
DeleteMessage(uid, m) ==
    /\ uid \in UserIds
    /\ m \in MessageIds
    /\ messages' = IF MessagesWritePolicy(uid, m)
                   THEN Without(messages, m)
                   ELSE messages
    /\ op' = [via |-> "message_delete", actor |-> uid, target |-> m]
    /\ UNCHANGED <<accountVars, ticketVars, media_assets, objects, pageVars>>

\* a signed-in user inserts a media_assets row with their own credential
InsertMedia(uid, row) ==
    /\ uid \in UserIds
    /\ Len(media_assets) < MaxMedia
    /\ media_assets' = IF MediaInsertPolicy(uid, row)
                       THEN Append(media_assets, row)
                       ELSE media_assets
    /\ op' = [via |-> "media_insert", actor |-> uid, row |-> row]
    /\ UNCHANGED <<accountVars, ticketVars, messages, objects, pageVars>>

\* a user's UPDATE of the storage_path of media asset a
UpdateMedia(uid, a, path) ==
    /\ uid \in UserIds
    /\ a \in MediaIds
    /\ media_assets' = IF MediaWritePolicy(uid, a)
                       THEN [media_assets EXCEPT ![a].storage_path = path]
                       ELSE media_assets
    /\ op' = [via |-> "media_update", actor |-> uid, target |-> a]
    /\ UNCHANGED <<accountVars, ticketVars, messages, objects, pageVars>>

\* a user's DELETE of media asset a
DeleteMedia(uid, a) ==
    /\ uid \in UserIds
    /\ a \in MediaIds
    /\ media_assets' = IF MediaWritePolicy(uid, a)
                       THEN Without(media_assets, a)
                       ELSE media_assets
    /\ op' = [via |-> "media_delete", actor |-> uid, target |-> a]
    /\ UNCHANGED <<accountVars, ticketVars, messages, objects, pageVars>>

\* storage.from('ticket-attachments').upload(name, file) with the user's
\* own credential; an existing name is not overwritten
UploadObject(uid, name, file) ==
    /\ uid \in UserIds
    /\ objects' = IF /\ ObjectsInsertPolicy(uid, name)
                     /\ BucketAccepts(file)
                     /\ name \notin objects
                  THEN objects \cup {name}
                  ELSE objects
    /\ op' = [via |-> "upload", actor |-> uid, name |-> name]
    /\ UNCHANGED <<accountVars, ticketVars, messages, media_assets, pageVars>>

\* ------------------------------------------- the ticket pages (client)
\* what the TicketThread page offers for the ticket it holds: the badge
\* reads 'Pending' for a pending ticket and 'Resolved' for any other
Badge == IF thread.status = "pending" THEN "Pending" ELSE "Resolved"
ResolveButtonOffered == thread.userRole = "staff" /\ thread.status = "pending"
ReplyFormOffered == thread.status = "pending"

\* a signed-in user opens /ticket/t (no handler of the page they leave is
\* in flight): the effect starts fetchTicket and fetchMessages, whose query
\* result is then in flight, and subscribes to the ticket's message inserts;
\* userRole is what useAuth() reports, one of the roles the user holds
OpenTicket(uid, t, role) ==
    /\ uid \in UserIds
    /\ t \in TicketIds
    /\ role \in IF RolesOf(uid) = {} THEN {"none"} ELSE RolesOf(uid)
    /\ send.pc = "idle" /\ ~thread.isResolving
    /\ thread' = [user |-> uid, id |-> t, userRole |-> role, status |-> "none",
                  fetching |-> TRUE, isResolving |-> FALSE, toast |-> "none"]
    /\ send' = SendIdle
    /\ view' = [messages |-> <<>>, fetches |-> {StoredMessages(uid, t)},
                events |-> 0, toast |-> "none"]
    /\ op' = [via |-> "OpenTicket", actor |-> uid]
    /\ UNCHANGED <<accountVars, ticketVars, threadVars, selectedFiles,
                   newTicket, inviteForm, dash>>

\* fetchTicket completes: select ... .eq('id', id).single() returns the row
\* if the SELECT policy shows it, and an error otherwise (toast, navigate('/'))
fetchTicket ==
    /\ thread.fetching
    /\ thread' = IF TicketsSelectPolicy(thread.user, thread.id)
                 THEN [thread EXCEPT !.status = tickets[thread.id].status,
                                     !.fetching = FALSE]
                 ELSE [ThreadClosed EXCEPT !.toast = "Error fetching ticket"]
    /\ op' = [via |-> "fetchTicket", actor |-> thread.user]
    /\ UNCHANGED <<accountVars, ticketVars, threadVars, selectedFiles,
                   newTicket, send, view, inviteForm, dash>>

\* the subscription's callback: a change notification is delivered and
\* fetchMessages is called; its query result is then in flight
fetchMessages ==
    /\ view.events > 0
    /\ view' = [view EXCEPT
                  !.events = @ - 1,
                  !.fetches = @ \cup {StoredMessages(thread.user, thread.id)}]
    /\ op' = [via |-> "fetchMessages", actor |-> thread.user]
    /\ UNCHANGED <<accountVars, ticketVars, threadVars, selectedFiles, thread,
                   newTicket, send, inviteForm, dash>>

\* a fetchMessages call receives its result: setMessages(data || []), or the
\* toast 'Error fetching messages' on an error; the results of concurrent
\* calls arrive in any order
setMessages(ok) ==
    /\ view.fetches # {}
    /\ \E data \in view.fetches :
          view' = [view EXCEPT
                     !.fetches = @ \ {data},
                     !.messages = IF ok THEN data ELSE @,
                     !.toast = IF ok THEN @ ELSE "Error fetching messages"]
    /\ op' = [via |-> "setMessages", actor |-> thread.user]
    /\ UNCHANGED <<accountVars, ticketVars, threadVars, selectedFiles, thread,
                   newTicket, send, inviteForm, dash>>

\* the label handleResolveTicket sends: update({ status: 'resolved' })
ResolvedLabel == "resolved"

\* TicketThread handleResolveTicket, invoked from the 'Mark Resolved' button
\* (disabled while isResolving) by the user uid who has ticket t open:
\* setIsResolving(true) and the update request is sent
handleResolveTicket(uid, t) ==
    /\ uid \in UserIds
    /\ t \in TicketIds
    /\ thread.user = uid /\ thread.id = t
    /\ ResolveButtonOffered
    /\ ~thread.isResolving
    /\ thread' = [thread EXCEPT !.isResolving = TRUE]
    /\ op' = [via |-> "handleResolveTicket", actor |-> uid]
    /\ UNCHANGED <<accountVars, ticketVars, threadVars, selectedFiles,
                   newTicket, send, view, inviteForm, dash>>

\* variant: the handler returns from its error branch
handleResolveTicketDone_ReturnOnError ==
    /\ thread.isResolving
    /\ IF ResolvedLabel \in ticket_status
       THEN /\ tickets' = IF TicketsUpdatePolicy(thread.user, thread.id)
                          THEN [tickets EXCEPT ![thread.id].status = ResolvedLabel]
                          ELSE tickets
            /\ thread' = [thread EXCEPT !.toast = "Ticket resolved!",
                                        !.fetching = TRUE,
                                        !.isResolving = FALSE]
       ELSE /\ tickets' = tickets
            /\ thread' = [thread EXCEPT !.toast = "Error resolving ticket"]
    /\ op' = [via |-> "ticket_update", actor |-> thread.user,
              handler |-> "handleResolveTicket", target |-> thread.id]
    /\ UNCHANGED <<accountVars, ticket_status, threadVars, selectedFiles,
                   newTicket, send, view, inviteForm, dash>>

\* handleResolveTicket continues: update({status: 'resolved'}).eq('id', id)
\* has answered; a label that is not of the enum type is an error (toast
\* 'Error resolving ticket'), otherwise the rows the UPDATE policy admits are
\* updated, the toast is 'Ticket resolved!' and fetchTicket is started;
\* setIsResolving(false) follows on both branches
handleResolveTicketDone ==
    /\ thread.isResolving
    /\ IF ResolvedLabel \in ticket_status
       THEN /\ tickets' = IF TicketsUpdatePolicy(thread.user, thread.id)
                          THEN [tickets EXCEPT ![thread.id].status = ResolvedLabel]
                          ELSE tickets
            /\ thread' = [thread EXCEPT !.toast = "Ticket resolved!",
                                        !.fetching = TRUE,
                                        !.isResolving = FALSE]
       ELSE /\ tickets' = tickets
            /\ thread' = [thread EXCEPT !.toast = "Error resolving ticket",
                                        !.isResolving = FALSE]
    /\ op' = [via |-> "ticket_update", actor |-> thread.user,
              handler |-> "handleResolveTicket", target |-> thread.id]
    /\ UNCHANGED <<accountVars, ticket_status, threadVars, selectedFiles,
                   newTicket, send, view, inviteForm, dash>>

\* NewTicket handleSubmit up to its first request: setIsLoading(true) and
\* the signed-in user's insert of the ticket row (student_id = user.id,
\* status 'pending'); ok tells whether the request reaches the database; an
\* error is thrown to the catch block (toast 'Error creating ticket') and
\* the finally block sets isLoading to false
handleSubmit(uid, ok) ==
    /\ uid \in UserIds
    /\ newTicket.pc = "idle"
    /\ Len(tickets) < MaxTickets
    /\ Len(messages) < MaxMessages
    /\ Len(media_assets) + Len(selectedFiles) <= MaxMedia
    /\ LET row == [student_id |-> uid, status |-> "pending"]
           inserted == /\ ok
                       /\ TicketsInsertPolicy(uid, row)
                       /\ row.status \in ticket_status
       IN  /\ tickets' = IF inserted THEN Append(tickets, row) ELSE tickets
           /\ newTicket' = IF inserted
                           THEN [pc |-> "message", user |-> uid,
                                 ticket |-> Len(tickets) + 1, message |-> 0,
                                 files |-> selectedFiles, k |-> 0,
                                 isLoading |-> TRUE, navigated |-> 0,
                                 toast |-> "none"]
                           ELSE [NewTicketIdle EXCEPT
                                    !.toast = "Error creating ticket"]
    /\ op' = [via |-> "handleSubmit", actor |-> uid]
    /\ UNCHANGED <<accountVars, ticket_status, threadVars, selectedFiles,
                   thread, send, view, inviteForm, dash>>

\* handleSubmit ends in its catch block: the toast, then the finally block
NewTicketFailed == [NewTicketIdle EXCEPT !.toast = "Error creating ticket"]

\* handleSubmit ends after its last request: the toast 'Ticket created!',
\* navigate('/ticket/' + ticket.id), then the finally block
NewTicketCreated == [NewTicketIdle EXCEPT !.navigated = newTicket.ticket,
                                          !.toast = "Ticket created!"]

\* handleSubmit continues: the insert of the first message; with no file
\* selected the handler then toasts 'Ticket created!' and navigates to the
\* ticket, which unmounts the form; with files selected the upload loop
\* follows
handleSubmitMessage(ok) ==
    /\ newTicket.pc = "message"
    /\ Len(messages) < MaxMessages
    /\ LET row == [ticket_id |-> newTicket.ticket, sender_id |-> newTicket.user]
           inserted == ok /\ MessagesInsertPolicy(newTicket.user, row)
       IN  /\ messages' = IF inserted THEN Append(messages, row) ELSE messages
           /\ tickets' = tickets
           /\ view' = IF inserted THEN MessageInserted(row) ELSE view
           /\ newTicket' =
                 IF ~inserted THEN NewTicketFailed
                 ELSE IF Len(newTicket.files) > 0
                      THEN [newTicket EXCEPT !.pc = "upload",
                                             !.message = Len(messages) + 1]
                      ELSE NewTicketCreated
           /\ selectedFiles' = IF inserted /\ Len(newTicket.files) = 0
                               THEN <<>> ELSE selectedFiles
    /\ op' = [via |-> "message_insert", actor |-> newTicket.user,
              row |-> [ticket_id |-> newTicket.ticket,
                       sender_id |-> newTicket.user]]
    /\ UNCHANGED <<accountVars, ticket_status, media_assets, objects, thread,
                   send, inviteForm, dash>>

\* the name handleSubmit and handleSendMessage give the next file of message
\* m sent by uid: `${user.id}/${messageData.id}/${crypto.randomUUID()}.ext`
FileName(uid, m, k) == <<uid, <<m, k>>>>

\* handleSubmit's loop, first request for the next file: the upload to
\* ticket-attachments under the user's own credential
handleSubmitUpload(ok) ==
    /\ newTicket.pc = "upload"
    /\ LET file == newTicket.files[newTicket.k + 1]
           name == FileName(newTicket.user, newTicket.message, newTicket.k + 1)
           uploaded == /\ ok
                       /\ ObjectsInsertPolicy(newTicket.user, name)
                       /\ BucketAccepts(file)
                       /\ name \notin objects
       IN  /\ objects' = IF uploaded THEN objects \cup {name} ELSE objects
           /\ newTicket' = IF uploaded THEN [newTicket EXCEPT !.pc = "media"]
                           ELSE NewTicketFailed
           /\ op' = [via |-> "upload", actor |-> newTicket.user, name |-> name]
    /\ UNCHANGED <<accountVars, ticketVars, messages, media_assets,
                   selectedFiles, thread, send, view, inviteForm, dash>>

\* handleSubmit's loop, second request for the file: the media_assets row
\* for the uploaded object; after the last file the handler toasts and
\* navigates
handleSubmitMedia(ok) ==
    /\ newTicket.pc = "media"
    /\ Len(media_assets) < MaxMedia
    /\ LET name == FileName(newTicket.user, newTicket.message, newTicket.k + 1)
           row == [message_id |-> newTicket.message, storage_path |-> name]
           inserted == ok /\ MediaInsertPolicy(newTicket.user, row)
           last == newTicket.k + 1 = Len(newTicket.files)
       IN  /\ media_assets' = IF inserted THEN Append(media_assets, row)
                              ELSE media_assets
           /\ newTicket' =
                 IF ~inserted THEN NewTicketFailed
                 ELSE IF last THEN NewTicketCreated
                 ELSE [newTicket EXCEPT !.pc = "upload", !.k = @ + 1]
           /\ selectedFiles' = IF inserted /\ last THEN <<>> ELSE selectedFiles
           /\ op' = [via |-> "media_insert", actor |-> newTicket.user,
                     row |-> row]
    /\ UNCHANGED <<accountVars, ticketVars, messages, objects, thread, send,
                   view, inviteForm, dash>>

\* TicketThread handleSendMessage, invoked from the reply form by the user
\* who has the ticket open, with text in the textarea or files selected:
\* setIsSending(true), setIsUploading(selectedFiles.length > 0) and the
\* insert of the message row is sent
handleSendMessage(text) ==
    /\ thread.user \in UserIds /\ thread.id \in TicketIds
    /\ ReplyFormOffered
    /\ send.pc = "idle"
    /\ text \/ Len(selectedFiles) > 0
    /\ Len(messages) < MaxMessages
    /\ send' = [pc |-> "insert", user |-> thread.user, ticket |-> thread.id,
                message |-> 0, files |-> selectedFiles, k |-> 0,
                newMessage |-> text, isSending |-> TRUE,
                isUploading |-> Len(selectedFiles) > 0, toast |-> "none"]
    /\ op' = [via |-> "handleSendMessage", actor |-> thread.user]
    /\ UNCHANGED <<accountVars, ticketVars, threadVars, selectedFiles, thread,
                   newTicket, view, inviteForm, dash>>

\* handleSendMessage ends in its catch block: the toast 'Error sending
\* message', then the finally block; the text and the files stay
SendFailed == [SendIdle EXCEPT !.newMessage = send.newMessage,
                               !.toast = "Error sending message"]

\* handleSendMessage continues: the insert of the message row has answered;
\* with no file selected the form is cleared, then the finally block
handleSendMessageInsert(ok) ==
    /\ send.pc = "insert"
    /\ Len(messages) < MaxMessages
    /\ LET row == [ticket_id |-> send.ticket, sender_id |-> send.user]
           inserted == ok /\ MessagesInsertPolicy(send.user, row)
           done == inserted /\ Len(send.files) = 0
       IN  /\ messages' = IF inserted THEN Append(messages, row) ELSE messages
           /\ view' = IF inserted THEN MessageInserted(row) ELSE view
           /\ send' = IF ~inserted THEN SendFailed
                      ELSE IF done THEN SendIdle
                      ELSE [send EXCEPT !.pc = "upload",
                                        !.message = Len(messages) + 1]
           /\ selectedFiles' = IF ~inserted THEN selectedFiles
                               ELSE IF done THEN <<>> ELSE selectedFiles
           /\ op' = [via |-> "message_insert", actor |-> send.user, row |-> row]
    /\ UNCHANGED <<accountVars, ticketVars, media_assets, objects, thread,
                   newTicket, inviteForm, dash>>

\* variant: the upload's error is not looked at
handleSendMessageUpload_Unchecked(ok) ==
    /\ send.pc = "upload"
    /\ LET file == send.files[send.k + 1]
           name == FileName(send.user, send.message, send.k + 1)
           uploaded == /\ ok
                       /\ ObjectsInsertPolicy(send.user, name)
                       /\ BucketAccepts(file)
                       /\ name \notin objects
       IN  /\ objects' = IF uploaded THEN objects \cup {name} ELSE objects
           /\ send' = [send EXCEPT !.pc = "media"]
           /\ op' = [via |-> "upload", actor |-> send.user, name |-> name]
    /\ UNCHANGED <<accountVars, ticketVars, messages, media_assets,
                   selectedFiles, thread, newTicket, view, inviteForm, dash>>

\* handleSendMessage's loop, first request for the next file: the upload
handleSendMessageUpload(ok) ==
    /\ send.pc = "upload"
    /\ LET file == send.files[send.k + 1]
           name == FileName(send.user, send.message, send.k + 1)
           uploaded == /\ ok
                       /\ ObjectsInsertPolicy(send.user, name)
                       /\ BucketAccepts(file)
                       /\ name \notin objects
       IN  /\ objects' = IF uploaded THEN objects \cup {name} ELSE objects
           /\ send' = IF uploaded THEN [send EXCEPT !.pc = "media"]
                      ELSE SendFailed
           /\ op' = [via |-> "upload", actor |-> send.user, name |-> name]
    /\ UNCHANGED <<accountVars, ticketVars, messages, media_assets,
                   selectedFiles, thread, newTicket, view, inviteForm, dash>>

\* handleSendMessage's loop, second request for the file: the media_assets
\* row; after the last file the form is cleared, then the finally block
handleSendMessageMedia(ok) ==
    /\ send.pc = "media"
    /\ Len(media_assets) < MaxMedia
    /\ LET name == FileName(send.user, send.message, send.k + 1)
           row == [message_id |-> send.message, storage_path |-> name]
           inserted == ok /\ MediaInsertPolicy(send.user, row)
           last == send.k + 1 = Len(send.files)
       IN  /\ media_assets' = IF inserted THEN Append(media_assets, row)
                              ELSE media_assets
           /\ send' = IF ~inserted THEN SendFailed
                      ELSE IF last THEN SendIdle
                      ELSE [send EXCEPT !.pc = "upload", !.k = @ + 1]
           /\ selectedFiles' = IF inserted /\ last THEN <<>> ELSE selectedFiles
           /\ op' = [via |-> "media_insert", actor |-> send.user, row |-> row]
    /\ UNCHANGED <<accountVars, ticketVars, messages, objects, thread,
                   newTicket, view, inviteForm, dash>>

\* InviteStaff handleInvite: setLoading(true) and the invite-staff function
\* is invoked
handleInvite ==
    /\ ~inviteForm.loading
    /\ inviteForm' = [loading |-> TRUE, toast |-> "none"]
    /\ op' = [via |-> "handleInvite", actor |-> 0]
    /\ UNCHANGED <<accountVars, ticketVars, threadVars, selectedFiles, thread,
                   newTicket, send, view, dash>>

\* handleInvite continues: functions.invoke has answered; an error is
\* thrown to the catch block (toast 'Error'), otherwise the toast is 'Staff
\* member invited'; the finally block sets loading to false
handleInviteDone(ok) ==
    /\ inviteForm.loading
    /\ inviteForm' = [loading |-> FALSE,
                      toast |-> IF ok THEN "Staff member invited" ELSE "Error"]
    /\ op' = [via |-> "handleInviteDone", actor |-> 0]
    /\ UNCHANGED <<accountVars, ticketVars, threadVars, selectedFiles, thread,
                   newTicket, send, view, dash>>

\* ------------------------------------------------ the dashboards (client)
\* the status filter of the admin dashboard, and its staff filter (0: none)
StatusFilters == {"all", "pending", "resolved"}
StaffFilters == {0} \cup Uids

\* parseFloat(((count / total) * 100).toFixed(2)), in hundredths of a
\* percent: the quotient rounded to two decimals, the upper one on a tie
Percentage(count, total) == (2 * count * 10000 + total) \div (2 * total)

\* Array.prototype.sort((a, b) => key(b) - key(a)) on s, where keys[i] is
\* the key of s[i]: non-increasing keys, equal keys in their former order
SortDescending(s, keys) ==
    LET Rank(i) == 1 + Cardinality({j \in DOMAIN s :
                                       \/ keys[j] > keys[i]
                                       \/ keys[j] = keys[i] /\ j < i})
    IN  [p \in DOMAIN s |-> s[CHOOSE i \in DOMAIN s : Rank(i) = p]]

\* the ids of the tickets a query on tickets returns to uid under the SELECT
\* policy, with the status filter applied by .eq('status', filters.status)
TicketsQuery(uid, status) ==
    {t \in TicketIds : /\ TicketsSelectPolicy(uid, t)
                       /\ status = "all" \/ tickets[t].status = status}

\* the admin dashboard's filterTicketsByStaff: the tickets among ts with a
\* message sent by staffId that the SELECT policy on messages shows to uid
filterTicketsByStaff(uid, ts, staffId) ==
    {t \in ts : \E m \in MessageIds : /\ messages[m].sender_id = staffId
                                      /\ messages[m].ticket_id = t
                                      /\ MessagesSelectPolicy(uid, m)}

\* StaffDashboard fetchTickets by uid, and the counts and tabs rendered from
\* the rows: tickets.length, pendingTickets and resolvedTickets
fetchTickets(uid) ==
    /\ uid \in UserIds
    /\ LET rows == TicketsQuery(uid, "all")
       IN  dash' = [kind |-> "StaffDashboard",
                    tickets |-> rows,
                    pendingTickets |->
                       {t \in rows : tickets[t].status = "pending"},
                    resolvedTickets |->
                       {t \in rows : tickets[t].status = "resolved"}]
    /\ op' = [via |-> "fetchTickets", actor |-> uid]
    /\ UNCHANGED <<accountVars, ticketVars, threadVars, selectedFiles, thread,
                   newTicket, send, view, inviteForm>>

\* AdminDashboard fetchMetrics by the admin uid under the filters: a status
\* filter that is no label of the enum is an error (toast, metrics kept)
fetchMetrics(uid, status, staffMember) ==
    /\ uid \in UserIds
    /\ has_role(uid, "admin")
    /\ LET rows == TicketsQuery(uid, status)
           filteredTickets == IF staffMember # 0
                              THEN filterTicketsByStaff(uid, rows, staffMember)
                              ELSE rows
       IN  dash' = IF status # "all" /\ status \notin ticket_status
                   THEN dash
                   ELSE [kind |-> "metrics",
                         tickets |-> filteredTickets,
                         total |-> Cardinality(filteredTickets),
                         pending |-> Cardinality(
                            {t \in filteredTickets :
                                tickets[t].status = "pending"}),
                         resolved |-> Cardinality(
                            {t \in filteredTickets :
                                tickets[t].status = "resolved"})]
    /\ op' = [via |-> "fetchMetrics", actor |-> uid]
    /\ UNCHANGED <<accountVars, ticketVars, threadVars, selectedFiles, thread,
                   newTicket, send, view, inviteForm>>

\* the entries fetchCommonIssues keeps: slice(0, 10)
TopIssues == 10

\* variant: the counts are not sorted
commonIssues_Unsorted(subjects) ==
    LET indices == [i \in 1..Len(subjects) |-> i]
        IsFirst(i) == \A j \in 1..(i - 1) : subjects[j] # subjects[i]
        first == SelectSeq(indices, IsFirst)
        total == IF Len(subjects) = 0 THEN 1 ELSE Len(subjects)
        Count(subject) ==
            Cardinality({j \in 1..Len(subjects) : subjects[j] = subject})
        issues == [i \in 1..Len(first) |->
                     [subject |-> subjects[first[i]],
                      count |-> Count(subjects[first[i]]),
                      percentage |->
                         Percentage(Count(subjects[first[i]]), total)]]
    IN  SubSeq(issues, 1, IF Len(issues) < TopIssues THEN Len(issues)
                          ELSE TopIssues)

\* what fetchCommonIssues computes from the subjects of the filtered
\* tickets: subjectMap in the order of first occurrence, one entry per
\* subject with its count and percentage, sorted by count, the first ten
commonIssues(subjects) ==
    LET indices == [i \in 1..Len(subjects) |-> i]
        IsFirst(i) == \A j \in 1..(i - 1) : subjects[j] # subjects[i]
        first == SelectSeq(indices, IsFirst)
        total == IF Len(subjects) = 0 THEN 1 ELSE Len(subjects)
        Count(subject) ==
            Cardinality({j \in 1..Len(subjects) : subjects[j] = subject})
        issues == [i \in 1..Len(first) |->
                     [subject |-> subjects[first[i]],
                      count |-> Count(subjects[first[i]]),
                      percentage |->
                         Percentage(Count(subjects[first[i]]), total)]]
        sorted == SortDescending(issues,
                                 [i \in DOMAIN issues |-> issues[i].count])
    IN  SubSeq(sorted, 1, IF Len(sorted) < TopIssues THEN Len(sorted)
                          ELSE TopIssues)

\* AdminDashboard fetchCommonIssues, where the query and the staff filter
\* have left tickets with these subjects
fetchCommonIssues(subjects) ==
    /\ dash' = [kind |-> "commonIssues", filteredTickets |-> subjects,
                commonIssues |-> commonIssues(subjects)]
    /\ op' = [via |-> "fetchCommonIssues", actor |-> 0]
    /\ UNCHANGED <<accountVars, ticketVars, threadVars, selectedFiles, thread,
                   newTicket, send, view, inviteForm>>

\* the user_roles rows a select returns to uid: policy "Users can view their
\* own roles"
UserRolesQuery(uid) == {row \in user_roles : row[1] = uid}

\* the ticket ids of the messages query of fetchStaffPerformance for one
\* profile: messages sent by it, joined to their tickets (tickets!inner)
\* under both SELECT policies and the status filter; an error gives none
uniqueTickets(uid, profile, status) ==
    IF status # "all" /\ status \notin ticket_status THEN {}
    ELSE {messages[m].ticket_id :
            m \in {n \in MessageIds :
                     /\ messages[n].sender_id = profile
                     /\ MessagesSelectPolicy(uid, n)
                     /\ messages[n].ticket_id \in
                           TicketsQuery(uid, status)}}

\* variant: the resolved tickets are not restricted to the handled ones
resolvedTickets_All(uid, handled) ==
    IF "resolved" \notin ticket_status THEN {}
    ELSE {t \in TicketIds : /\ TicketsSelectPolicy(uid, t)
                            /\ tickets[t].status = "resolved"}

\* select('id').in('id', uniqueTickets).eq('status', 'resolved') as uid; an
\* error ('resolved' is no label of the enum) gives none
resolvedTickets(uid, handled) ==
    IF "resolved" \notin ticket_status THEN {}
    ELSE {t \in handled : /\ TicketsSelectPolicy(uid, t)
                          /\ tickets[t].status = "resolved"}

\* AdminDashboard fetchStaffPerformance by the admin uid under the filters:
\* one entry per profile whose staff or admin role the role query returns,
\* sorted by ticketsHandled; rates are in hundredths of a percent
fetchStaffPerformance(uid, status, staffMember) ==
    /\ uid \in UserIds
    /\ has_role(uid, "admin")
    /\ LET staffIds == {row[1] : row \in {r \in UserRolesQuery(uid) :
                                            r[2] \in {"staff", "admin"}}}
           chosen == IF staffMember # 0 THEN staffIds \cap {staffMember}
                     ELSE staffIds
           IsProfile(id) == id \in chosen
           profiles == SelectSeq([i \in 1..Len(users) |-> i], IsProfile)
           Entry(profile) ==
              LET handled == uniqueTickets(uid, profile, status)
                  ticketsHandled == Cardinality(handled)
                  resolvedCount ==
                     Cardinality(resolvedTickets(uid, handled))
              IN  [id |-> profile,
                   ticketsHandled |-> ticketsHandled,
                   resolvedCount |-> resolvedCount,
                   resolutionRate |->
                      IF ticketsHandled > 0
                      THEN Percentage(resolvedCount, ticketsHandled)
                      ELSE 0]
           performance == [i \in DOMAIN profiles |-> Entry(profiles[i])]
       IN  dash' = [kind |-> "staffPerformance",
                    staffPerformance |->
                       SortDescending(performance,
                          [i \in DOMAIN performance |->
                              performance[i].ticketsHandled])]
    /\ op' = [via |-> "fetchStaffPerformance", actor |-> uid,
              status |-> status, staffMember |-> staffMember]
    /\ UNCHANGED <<accountVars, ticketVars, threadVars, selectedFiles, thread,
                   newTicket, send, view, inviteForm>>

\* ------------------------------------------------------ specification
\* the database before the demo accounts are seeded
InitSeed ==
    /\ users = <<>>
    /\ user_roles = {}
    /\ security_audit_log = <<>>
    /\ inv = InvIdle
    /\ seed = [p \in Seeders |-> SeedIdle]
    /\ seeded = FALSE
    /\ tickets = <<>>
    /\ ticket_status = ticket_status_old
    /\ InitThreadVars
    /\ InitPageVars
    /\ op = [via |-> "init", actor |-> 0]

\* the seeded database with a third account, which holds any set of roles
\* (sign-up, then role rows inserted by itself and by staff)
InitTickets ==
    /\ users = <<adminEmail, staffEmail, "new@example.com">>
    /\ \E rs \in SUBSET app_role :
          user_roles = {<<1, "admin">>, <<2, "staff">>} \cup {<<3, r>> : r \in rs}
    /\ security_audit_log = <<>>
    /\ inv = InvIdle
    /\ seed = [p \in Seeders |-> SeedIdle]
    /\ seeded = TRUE
    /\ tickets = <<>>
    /\ ticket_status = ticket_status_old
    /\ InitThreadVars
    /\ InitPageVars
    /\ op = [via |-> "init", actor |-> 0]

\* the steps of invite-staff; LogOk are the outcomes of the audit insert
NextInvite(LogOk) ==
    \/ \E auth \in Auths, logOk \in LogOk : InviteReceive(auth, logOk)
    \/ \E ok \in BOOLEAN, logOk \in LogOk : InviteGetUser(ok, logOk)
    \/ \E rpcOk \in BOOLEAN, body \in Bodies, logOk \in LogOk :
          InviteCanInvite(rpcOk, body, logOk)
    \/ \E rpcOk \in BOOLEAN, logOk \in LogOk : InviteHasRole(rpcOk, logOk)
    \/ \E ok \in BOOLEAN, logOk \in LogOk : InviteCreateUser(ok, logOk)
    \/ \E ok \in BOOLEAN, logOk \in LogOk : InviteInsertRole(ok, logOk)
    \/ InviteReturn

\* accounts and roles: sign-up, direct inserts, invite-staff
Next ==
    \/ \E e \in Emails : SignUp(e)
    \/ \E uid \in Uids, row \in Uids \X app_role : DirectInsertRole(uid, row)
    \/ NextInvite(BOOLEAN)

\* the same with an audit log whose inserts never fail
NextAuditOk ==
    \/ \E e \in Emails : SignUp(e)
    \/ \E uid \in Uids, row \in Uids \X app_role : DirectInsertRole(uid, row)
    \/ NextInvite({TRUE})

\* setup-demo-accounts, from the database before seeding
NextSeed ==
    \/ \E p \in Seeders, ok \in BOOLEAN : SeedListUsers(p, ok)
    \/ \E p \in Seeders, ok \in BOOLEAN : SeedCreateAdmin(p, ok)
    \/ \E p \in Seeders, ok \in BOOLEAN : SeedAdminRole(p, ok)
    \/ \E p \in Seeders, ok \in BOOLEAN : SeedCreateStaff(p, ok)
    \/ \E p \in Seeders, ok \in BOOLEAN : SeedStaffRole(p, ok)
    \/ \E p \in Seeders : SeedReturn(p)

\* setup-demo-accounts invoked one invocation after the other: an
\* invocation begins only when no other one is in flight
SeedListUsersSeq(p, ok) ==
    /\ \A q \in Seeders \ {p} : seed[q].pc = "idle"
    /\ SeedListUsers(p, ok)

NextSeedSeq ==
    \/ \E p \in Seeders, ok \in BOOLEAN : SeedListUsersSeq(p, ok)
    \/ \E p \in Seeders, ok \in BOOLEAN : SeedCreateAdmin(p, ok)
    \/ \E p \in Seeders, ok \in BOOLEAN : SeedAdminRole(p, ok)
    \/ \E p \in Seeders, ok \in BOOLEAN : SeedCreateStaff(p, ok)
    \/ \E p \in Seeders, ok \in BOOLEAN : SeedStaffRole(p, ok)
    \/ \E p \in Seeders : SeedReturn(p)

\* setup-demo-accounts invoked twice, the two invocations interleaved; no
\* backend call fails except createUser for an email already in use; a
\* visitor may sign up meanwhile
NextSeedOnce ==
    \/ SignUp("new@example.com")
    \/ \E p \in Seeders : SeedListUsers(p, TRUE)
    \/ \E p \in Seeders : SeedCreateAdmin(p, TRUE)
    \/ \E p \in Seeders : SeedAdminRole(p, TRUE)
    \/ \E p \in Seeders : SeedCreateStaff(p, TRUE)
    \/ \E p \in Seeders : SeedStaffRole(p, TRUE)

\* tickets, with the roles fixed
NextTickets ==
    \/ \E uid \in Uids, row \in [student_id : Uids,
                                   status : ticket_status_old \cup ticket_status_new] :
          InsertTicket(uid, row)
    \/ \E uid \in Uids, t \in 1..MaxTickets,
          status \in ticket_status_old \cup ticket_status_new :
          UpdateTicketStatus(uid, t, status)
    \/ MigrateTicketStatus

\* the status column: tickets filed through the form or inserted directly,
\* status updates with every label, before and after the migration
NextStatus ==
    \/ \E uid \in Uids : \E ok \in BOOLEAN : handleSubmit(uid, ok)
    \/ \E ok \in BOOLEAN : handleSubmitMessage(ok)
    \/ \E uid \in Uids, row \in [student_id : Uids,
                                   status : ticket_status_old \cup ticket_status_new] :
          InsertTicket(uid, row)
    \/ \E uid \in Uids, t \in 1..MaxTickets,
          status \in ticket_status_old \cup ticket_status_new :
          UpdateTicketStatus(uid, t, status)
    \/ MigrateTicketStatus

\* the ticket pages: tickets filed through the form, opened, resolved from
\* the page or updated directly, before and after the migration
NextPage ==
    \/ \E uid \in Uids : \E ok \in BOOLEAN : handleSubmit(uid, ok)
    \/ \E ok \in BOOLEAN : handleSubmitMessage(ok)
    \/ \E uid \in Uids, t \in 1..MaxTickets, role \in app_role \cup {"none"} :
          OpenTicket(uid, t, role)
    \/ fetchTicket
    \/ \E uid \in Uids, t \in 1..MaxTickets : handleResolveTicket(uid, t)
    \/ handleResolveTicketDone
    \/ \E uid \in Uids, t \in 1..MaxTickets,
          status \in ticket_status_old \cup ticket_status_new :
          UpdateTicketStatus(uid, t, status)
    \/ MigrateTicketStatus

\* invite-staff and the users' own operations on the audit log
NextAudit ==
    \/ NextInvite(BOOLEAN)
    \/ \E uid \in Uids, a \in ClientAuditActions : log_security_event(uid, a)
    \/ \E uid \in Uids, i \in 1..MaxAudit, a \in ClientAuditActions :
          UpdateAuditLog(uid, i, a)
    \/ \E uid \in Uids, i \in 1..MaxAudit : DeleteAuditLog(uid, i)

\* sequences of at most n offered files
FileLists(n) == UNION {[1..k -> Files] : k \in 0..n}

\* a form's file input and its list of selected files
NextFiles ==
    \/ \E files \in FileLists(MaxOffered) : handleFileSelect(files)
    \/ \E index \in 0..(MaxSelected - 1) : removeFile(index)

\* the new-ticket form: files selected one at a time and removed, and the
\* steps of handleSubmit
NextNewTicket ==
    \/ \E files \in FileLists(1) :
          Len(selectedFiles) < MaxMedia /\ handleFileSelect(files)
    \/ \E index \in 0..(MaxMedia - 1) : removeFile(index)
    \/ \E uid \in Uids, ok \in BOOLEAN : handleSubmit(uid, ok)
    \/ \E ok \in BOOLEAN : handleSubmitMessage(ok)
    \/ \E ok \in BOOLEAN : handleSubmitUpload(ok)
    \/ \E ok \in BOOLEAN : handleSubmitMedia(ok)

\* the ticket page of the two tickets and its message list: messages
\* inserted by the users, notifications delivered and fetches answered
NextView ==
    \/ \E uid \in Uids, t \in 1..2, role \in app_role : OpenTicket(uid, t, role)
    \/ fetchTicket
    \/ \E uid \in Uids, t \in 1..2 :
          InsertMessage(uid, [ticket_id |-> t, sender_id |-> uid])
    \/ fetchMessages
    \/ \E ok \in BOOLEAN : setMessages(ok)

\* the page of ticket 1 and its reply form, opened by the staff member or
\* by the ticket's student: image files selected one at a time, and the
\* steps of handleSendMessage
NextSend ==
    \/ \E uid \in 2..3, role \in app_role : OpenTicket(uid, 1, role)
    \/ fetchTicket
    \/ \E file \in Files :
          /\ file.type[1] = "image"
          /\ Len(selectedFiles) < MaxMedia
          /\ handleFileSelect(<<file>>)
    \/ \E text \in BOOLEAN : handleSendMessage(text)
    \/ \E ok \in BOOLEAN : handleSendMessageInsert(ok)
    \/ \E ok \in BOOLEAN : handleSendMessageUpload(ok)
    \/ \E ok \in BOOLEAN : handleSendMessageMedia(ok)

\* the forms of one browser session, used one at a time until MaxBusy
\* messages are stored: a handler is started only when none is in flight;
\* the student files tickets with png files selected one at a time, the
\* staff member opens them, replies and resolves, before and after the
\* migration, and invitations are sent
NextBusy ==
    \/ /\ newTicket.pc = "idle" /\ send.pc = "idle"
       /\ ~thread.isResolving /\ ~inviteForm.loading /\ ~thread.fetching
       /\ Len(messages) < MaxBusy
       /\ \/ \E file \in Files :
                /\ file.type = <<"image", "png">>
                /\ Len(selectedFiles) < MaxBusy
                /\ handleFileSelect(<<file>>)
          \/ \E ok \in BOOLEAN : handleSubmit(3, ok)
          \/ \E t \in 1..MaxTickets, role \in app_role : OpenTicket(2, t, role)
          \/ \E t \in 1..MaxTickets : handleResolveTicket(2, t)
          \/ \E text \in BOOLEAN : handleSendMessage(text)
          \/ handleInvite
          \/ MigrateTicketStatus
    \/ \E ok \in BOOLEAN : handleSubmitMessage(ok)
    \/ \E ok \in BOOLEAN : handleSubmitUpload(ok)
    \/ \E ok \in BOOLEAN : handleSubmitMedia(ok)
    \/ fetchTicket
    \/ handleResolveTicketDone
    \/ \E ok \in BOOLEAN : handleSendMessageInsert(ok)
    \/ \E ok \in BOOLEAN : handleSendMessageUpload(ok)
    \/ \E ok \in BOOLEAN : handleSendMessageMedia(ok)
    \/ \E ok \in BOOLEAN : handleInviteDone(ok)

\* the subjects of the filtered tickets: every list of at most MaxRows
\* tickets with three subjects, and lists of TopIssues + 1 subjects followed
\* by at most MaxRows more tickets of one of them
IssueInputs ==
    UNION {[1..n -> 1..3] : n \in 0..MaxRows} \cup
    {[i \in 1..(TopIssues + 1 + n) |-> IF i <= TopIssues + 1 THEN i ELSE k] :
        k \in 1..(TopIssues + 1), n \in 0..MaxRows}

\* the admin dashboard's common issues, fetched again and again
NextIssues == \E subjects \in IssueInputs : fetchCommonIssues(subjects)

\* the admin's staff performance over the two stored tickets: replies by
\* every user, status changes by the staff member, the staff role granted
\* to the admin, the migration, and the fetch under every filter
NextPerformance ==
    \/ \E uid \in Uids, t \in 1..MaxTickets :
          InsertMessage(uid, [ticket_id |-> t, sender_id |-> uid])
    \/ \E t \in 1..MaxTickets, status \in ticket_status_old :
          UpdateTicketStatus(2, t, status)
    \/ DirectInsertRole(2, <<1, "staff">>)
    \/ MigrateTicketStatus
    \/ \E status \in StatusFilters, staffMember \in StaffFilters :
          fetchStaffPerformance(1, status, staffMember)

\* the dashboards over the two stored tickets: replies and status changes
\* by the staff member with every label, the migration, the staff
\* dashboard fetched by every user and the admin's metrics under every
\* filter
NextDash ==
    \/ \E t \in 1..MaxTickets :
          InsertMessage(2, [ticket_id |-> t, sender_id |-> 2])
    \/ \E t \in 1..MaxTickets,
          status \in ticket_status_old \cup ticket_status_new :
          UpdateTicketStatus(2, t, status)
    \/ MigrateTicketStatus
    \/ \E uid \in Uids : fetchTickets(uid)
    \/ \E status \in StatusFilters, staffMember \in StaffFilters :
          fetchMetrics(1, status, staffMember)

\* the seeded database after new@example.com has signed up and inserted its
\* own student role: user 1 holds admin only, user 2 staff only, user 3
\* student only
InitThread ==
    /\ users = <<adminEmail, staffEmail, "new@example.com">>
    /\ user_roles = {<<1, "admin">>, <<2, "staff">>, <<3, "student">>}
    /\ security_audit_log = <<>>
    /\ inv = InvIdle
    /\ seed = [p \in Seeders |-> SeedIdle]
    /\ seeded = TRUE
    /\ tickets = <<>>
    /\ ticket_status = ticket_status_old
    /\ InitThreadVars
    /\ InitPageVars
    /\ op = [via |-> "init", actor |-> 0]

\* the same after user 3 and user 1 have each filed a ticket
InitStorage ==
    /\ users = <<adminEmail, staffEmail, "new@example.com">>
    /\ user_roles = {<<1, "admin">>, <<2, "staff">>, <<3, "student">>}
    /\ security_audit_log = <<>>
    /\ inv = InvIdle
    /\ seed = [p \in Seeders |-> SeedIdle]
    /\ seeded = TRUE
    /\ tickets = <<[student_id |-> 3, status |-> "pending"],
                   [student_id |-> 1, status |-> "pending"]>>
    /\ ticket_status = ticket_status_old
    /\ InitThreadVars
    /\ InitPageVars
    /\ op = [via |-> "init", actor |-> 0]

\* tickets and their messages: inserts by the users themselves
NextThread ==
    \/ \E uid \in Uids, row \in [student_id : Uids, status : {"pending"}] :
          InsertTicket(uid, row)
    \/ \E uid \in Uids, row \in [ticket_id : 1..MaxTickets, sender_id : Uids] :
          InsertMessage(uid, row)

\* messages and media assets of the two tickets: inserts, updates and
\* deletes by the users themselves
NextAppend ==
    \/ \E uid \in Uids, t \in 1..2 :
          InsertMessage(uid, [ticket_id |-> t, sender_id |-> uid])
    \/ \E uid \in Uids, m \in 1..MaxMessages, t \in 1..2 :
          UpdateMessage(uid, m, [ticket_id |-> t, sender_id |-> uid])
    \/ \E uid \in Uids, m \in 1..MaxMessages : DeleteMessage(uid, m)
    \/ \E uid \in Uids, m \in 1..MaxMessages :
          InsertMedia(uid, [message_id |-> m, storage_path |-> <<uid, 1>>])
    \/ \E uid \in Uids, a \in 1..MaxMedia, path \in Paths :
          UpdateMedia(uid, a, path)
    \/ \E uid \in Uids, a \in 1..MaxMedia : DeleteMedia(uid, a)

\* attachments of the two tickets: messages, uploads and media assets
NextStorage ==
    \/ \E uid \in Uids, t \in 1..2 :
          InsertMessage(uid, [ticket_id |-> t, sender_id |-> uid])
    \/ \E uid \in Uids, name \in Paths, file \in Files :
          UploadObject(uid, name, file)
    \/ \E uid \in Uids, m \in 1..MaxMessages, path \in Paths :
          InsertMedia(uid, [message_id |-> m, storage_path |-> path])

Spec == Init /\ [][Next]_vars
SpecSeedSeq == InitSeed /\ [][NextSeedSeq]_vars
SpecAuditOk == Init /\ [][NextAuditOk]_vars
SpecTickets == InitTickets /\ [][NextTickets]_vars
SpecSeed == InitSeed /\ [][NextSeed]_vars
SpecAudit == Init /\ [][NextAudit]_vars
SpecFiles == Init /\ [][NextFiles]_vars
SpecThread == InitThread /\ [][NextThread]_vars
SpecAppend == InitStorage /\ [][NextAppend]_vars
SpecStorage == InitStorage /\ [][NextStorage]_vars
SpecPage == InitThread /\ [][NextPage]_vars
SpecStatus == InitThread /\ [][NextStatus]_vars
SpecSeedOnce == InitSeed /\ [][NextSeedOnce]_vars
SpecNewTicket == InitThread /\ [][NextNewTicket]_vars
SpecSend == InitStorage /\ [][NextSend]_vars
SpecBusy == InitThread /\ [][NextBusy]_vars
SpecPerformance == InitStorage /\ [][NextPerformance]_vars
SpecDash == InitStorage /\ [][NextDash]_vars
SpecIssues == InitThread /\ [][NextIssues]_vars
SpecView == InitStorage /\ [][NextView]_vars

\* ============================================================== claims
HoldsAdmin(u) == <<u, "admin">> \in user_roles
HoldsStaffOrAdmin(u) == <<u, "staff">> \in user_roles \/ <<u, "admin">> \in user_roles

\* the user on whose behalf a step inserted a user_roles row: the signed-in
\* user of a direct insert, the caller of invite-staff
RoleInserter == IF op'.via = "direct" THEN op'.actor ELSE inv.user

\* the handler took a step that left accounts and roles as they were
NoAccountNoRole == users' = users /\ user_roles' = user_roles

\* C1: a user who does not hold the admin role never causes a user_roles
\* row with role 'admin' to be created, by invite-staff or by a direct insert.
C1_OnlyAdminsCreateAdminRows ==
    [][\A row \in user_roles' \ user_roles :
          row[2] = "admin" => HoldsAdmin(RoleInserter)]_vars

\* C2: a user who holds neither staff nor admin never causes a staff or
\* admin row to be created; the only row such a user inserts is
\* (own id, 'student').
C2_NonStaffInsertOnlyOwnStudentRow ==
    [][\A row \in user_roles' \ user_roles :
          ~HoldsStaffOrAdmin(RoleInserter) =>
              /\ op'.via = "direct"
              /\ row = <<RoleInserter, "student">>]_vars

C2_Witness ==
    /\ op.via = "direct"
    /\ RolesOf(op.actor) = {"student"}

\* C3: a request without Authorization header, or whose token resolves to
\* no user, is answered 401, and the handler creates no account and inserts
\* no user_roles row for it.
C3_Unauthenticated401 ==
    /\ [](inv.pc = "done" /\ inv.user = 0 =>
             inv.status = 401 /\ inv.newUser = 0 /\ ~inv.roleInserted)
    /\ [][inv' # inv /\ inv'.user = 0 => NoAccountNoRole]_vars

C3_Witness ==
    inv.pc = "done" /\ inv.auth.header /\ inv.user = 0 /\ inv.status = 401

\* C4: an authenticated caller who holds neither staff nor admin is
\* answered 403, and the handler creates no account and inserts no
\* user_roles row for the request.
C4_NotPermitted403 ==
    /\ [](inv.pc = "done" /\ inv.user # 0 /\ ~HoldsStaffOrAdmin(inv.user) =>
             inv.status = 403 /\ inv.newUser = 0 /\ ~inv.roleInserted)
    /\ [][inv' # inv /\ inv'.user # 0 /\ ~HoldsStaffOrAdmin(inv'.user) =>
             NoAccountNoRole]_vars

C4_Witness ==
    /\ inv.pc = "done" /\ inv.user # 0 /\ inv.status = 403
    /\ RolesOf(inv.user) = {"student"}

\* C5: a request for role 'admin' from an authenticated caller who does not
\* hold the admin role is answered 403, and the handler creates no account
\* and inserts no user_roles row for it. (A body the handler never read may
\* have asked for 'admin'.)
C5_AdminNeedsAdmin403 ==
    /\ [](/\ inv.pc = "done" /\ inv.user # 0 /\ ~HoldsAdmin(inv.user)
          /\ inv.body.role \in {"admin", "unread"}
          => inv.status = 403 /\ inv.newUser = 0 /\ ~inv.roleInserted)
    /\ [][/\ inv' # inv /\ inv'.user # 0 /\ ~HoldsAdmin(inv'.user)
          /\ inv'.body.role \in {"admin", "unread"}
          => NoAccountNoRole]_vars

C5_Witness ==
    /\ inv.pc = "done" /\ inv.body.role = "admin" /\ inv.status = 403
    /\ RolesOf(inv.user) = {"staff"}

\* the audit actions that name the outcome answered with a status
OutcomeActions(status) ==
    CASE status = 401 -> {"invite_staff_no_auth", "invite_staff_invalid_token"}
      [] status = 403 -> {"invite_staff_privilege_escalation_attempt",
                          "invite_admin_escalation_attempt"}
      [] status = 400 -> {"invite_staff_invalid_role", "invite_staff_creation_failed"}
      [] status = 200 -> {"invite_staff_success"}
      [] OTHER -> {"invite_staff_role_assignment_failed"}

\* C6: every request, whichever way it ends, has an audit record naming its
\* outcome appended to security_audit_log before the response is returned.
C6_AuditRecordForEveryEnd ==
    [][inv.pc # "done" /\ inv'.pc = "done" =>
          /\ Len(security_audit_log') = Len(security_audit_log) + 1
          /\ security_audit_log'[Len(security_audit_log')].action
                 \in OutcomeActions(inv'.status)]_vars

\* C7: a 200 response comes only after the account for the given email was
\* created and then the row (new user id, requested role) inserted, the role
\* being 'staff' or 'admin'; no row is inserted when the account creation
\* failed.
C7_SuccessAfterAccountThenRole ==
    /\ [](inv.pc = "done" /\ inv.status = 200 =>
             /\ inv.newUser \in UserIds
             /\ users[inv.newUser] = inv.body.email
             /\ inv.body.role \in {"staff", "admin"}
             /\ <<inv.newUser, inv.body.role>> \in user_roles
             /\ inv.roleInserted)
    /\ [](inv.roleInserted => inv.newUser \in UserIds /\ inv.status = 200)
    /\ [][~inv.roleInserted /\ inv'.roleInserted =>
             /\ inv.newUser \in UserIds
             /\ users' = users
             /\ user_roles' = user_roles \cup {<<inv.newUser, inv.body.role>>}]_vars

C7_Witness ==
    inv.pc = "done" /\ inv.status = 200 /\ inv.body.role = "admin"

\* C8 as stated: an invocation that follows one that returned 200 creates no
\* account, inserts no user_roles row and returns 200.
C8_AgainReturns200 ==
    \A p \in Seeders :
        seed[p].after200 =>
            /\ seed[p].adminUser = 0 /\ seed[p].staffUser = 0
            /\ seed[p].pc = "done" => seed[p].status = 200

\* C8 as amended: an invocation that follows one that returned 200 creates no
\* account and inserts no user_roles row; it returns 200 when its listUsers
\* call succeeded and 500 when it failed.
C8_AgainCreatesNothing ==
    /\ [](\A p \in Seeders :
             seed[p].after200 =>
                 /\ seed[p].adminUser = 0 /\ seed[p].staffUser = 0
                 /\ seed[p].pc = "done" =>
                        seed[p].status = IF seed[p].listed THEN 200 ELSE 500)
    /\ [][\A p \in Seeders :
             seed'[p] # seed[p] /\ seed'[p].after200 => NoAccountNoRole]_vars

C8_Witness ==
    \E p \in Seeders :
        seed[p].after200 /\ seed[p].pc = "done" /\ seed[p].status = 200

\* C9: after an invocation that returns 200, admin@example.com exists and
\* holds the admin role and staff@example.com exists and holds the staff role.
C9_DemoAccountsHoldRoles ==
    \A p \in Seeders :
        seed[p].pc = "done" /\ seed[p].status = 200 =>
            /\ \E u \in UserIds : users[u] = adminEmail /\ <<u, "admin">> \in user_roles
            /\ \E u \in UserIds : users[u] = staffEmail /\ <<u, "staff">> \in user_roles

\* C10: the status of a ticket is changed by a user's update only when that
\* user holds the staff or the admin role; a user holding only the student
\* role changes the status of no ticket, their own included.
C10_StatusChangedOnlyByStaffAdmin ==
    [][\A t \in DOMAIN tickets :
          tickets'[t].status # tickets[t].status /\ op'.via # "server" =>
              /\ op'.via = "ticket_update"
              /\ HoldsStaffOrAdmin(op'.actor)]_vars

C10_Witness ==
    /\ op.via = "ticket_update"
    /\ RolesOf(op.actor) = {"student"}
    /\ \E t \in DOMAIN tickets :
          tickets[t].student_id = op.actor /\ tickets[t].status = "pending"

\* C16: the audit log is append-only: every step of a handler or of a user
\* leaves the existing records in place and at most extends the sequence;
\* only users holding the admin role can read it.
C16_AuditLogAppendOnly ==
    /\ [](\A u \in DOMAIN users : AuditSelectPolicy(u) => HoldsAdmin(u))
    /\ [][/\ Len(security_audit_log') >= Len(security_audit_log)
          /\ SubSeq(security_audit_log', 1, Len(security_audit_log))
                 = security_audit_log]_vars

C16_Witness ==
    /\ op.via = "audit_delete" /\ HoldsAdmin(op.actor)
    /\ Len(security_audit_log) > 0

C18_SelectedFilesAreAttachable ==
    /\ [](\A i \in DOMAIN selectedFiles :
             /\ isValidType(selectedFiles[i])
             /\ selectedFiles[i].size <= 5242880
             /\ BucketAccepts(selectedFiles[i]))
    /\ [][op'.via = "handleFileSelect" =>
             selectedFiles' = selectedFiles \o
                 SelectSeq(op'.files,
                           LAMBDA f : /\ f.type[1] = "image" \/ f.type = <<"application", "pdf">>
                                      /\ f.size <= 5242880)]_vars

\* C11: a user holding the staff role, and equally a user holding only the
\* admin role, can read every ticket and its messages, post a message in
\* any ticket and update any ticket's status, whoever the ticket's student is.
C11_StaffAdminReadWriteAnyTicket ==
    \A u \in DOMAIN users :
        HoldsStaffOrAdmin(u) =>
            /\ \A t \in DOMAIN tickets :
                  /\ TicketsSelectPolicy(u, t)
                  /\ MessagesInsertPolicy(u, [ticket_id |-> t, sender_id |-> u])
                  /\ TicketsUpdatePolicy(u, t)
            /\ \A m \in DOMAIN messages : MessagesSelectPolicy(u, m)

\* a user holding the student role and no other
StudentOnly(u) == RolesOf(u) = {"student"}

\* C12: a user holding only the student role cannot read a ticket whose
\* student is another user, nor a message of such a ticket; every message
\* such a user inserts has themselves as sender and is in a ticket of their
\* own, and every ticket such a user creates has themselves as student.
C12_StudentOwnTicketsOnly ==
    /\ [](\A u \in DOMAIN users : StudentOnly(u) =>
             /\ \A t \in DOMAIN tickets :
                   tickets[t].student_id # u => ~TicketsSelectPolicy(u, t)
             /\ \A m \in DOMAIN messages :
                   tickets[messages[m].ticket_id].student_id # u
                       => ~MessagesSelectPolicy(u, m))
    /\ [][Len(messages') > Len(messages) /\ StudentOnly(op'.actor) =>
             /\ messages'[Len(messages')].sender_id = op'.actor
             /\ tickets[messages'[Len(messages')].ticket_id].student_id
                    = op'.actor]_vars
    /\ [][Len(tickets') > Len(tickets) /\ StudentOnly(op'.actor) =>
             tickets'[Len(tickets')].student_id = op'.actor]_vars

C12_Witness ==
    /\ op.via = "message_insert" /\ StudentOnly(op.actor)
    /\ op.row.sender_id = op.actor
    /\ op.row.ticket_id \in DOMAIN tickets
    /\ tickets[op.row.ticket_id].student_id # op.actor

\* C15: messages and media assets are append-only: every step leaves each
\* existing row of messages and of media_assets as it was and in place.
C15_MessagesAndMediaAppendOnly ==
    [][/\ Len(messages') >= Len(messages)
       /\ SubSeq(messages', 1, Len(messages)) = messages
       /\ Len(media_assets') >= Len(media_assets)
       /\ SubSeq(media_assets', 1, Len(media_assets)) = media_assets]_vars

C15_Witness ==
    /\ op.via = "message_delete"
    /\ op.target \in DOMAIN messages
    /\ messages[op.target].sender_id = op.actor

\* the object is referenced by a media asset of a message in a ticket whose
\* student is one of students
ReferencedFromTicketOf(name, students) ==
    \E a \in DOMAIN media_assets :
        /\ media_assets[a].storage_path = name
        /\ media_assets[a].message_id \in DOMAIN messages
        /\ tickets[messages[media_assets[a].message_id].ticket_id].student_id
               \in students

\* C17: a user can read a stored object if and only if the object is
\* referenced by a media asset of a message in a ticket, and the user is that
\* ticket's student or holds staff or admin; a student-only user cannot read
\* an object referenced from another user's ticket.
C17_ObjectAccessMirrorsTickets ==
    \A u \in DOMAIN users, name \in objects :
        /\ ObjectsSelectPolicy(u, name) <=>
              ReferencedFromTicketOf(name,
                  IF HoldsStaffOrAdmin(u) THEN Uids ELSE {u})
        /\ StudentOnly(u) /\ ReferencedFromTicketOf(name, Uids \ {u})
              => ~ObjectsSelectPolicy(u, name)

\* C13: once the migration has run, every ticket's status is one of pending,
\* in_progress, completed; the migration step turns 'resolved' into
\* 'completed' and leaves every other status, and a ticket created by the
\* new-ticket form is pending.
C13_StatusInMigratedEnum ==
    /\ [](ticket_status = ticket_status_new =>
             \A t \in DOMAIN tickets : tickets[t].status \in ticket_status_new)
    /\ [][ticket_status' # ticket_status =>
             /\ DOMAIN tickets' = DOMAIN tickets
             /\ \A t \in DOMAIN tickets :
                   tickets'[t].status = IF tickets[t].status = "resolved"
                                        THEN "completed"
                                        ELSE tickets[t].status]_vars
    /\ [][op'.via = "handleSubmit" /\ Len(tickets') > Len(tickets) =>
             tickets'[Len(tickets')].status = "pending"]_vars

C13_Witness ==
    /\ op.via = "server"
    /\ ticket_status = ticket_status_new
    /\ \E t \in DOMAIN tickets : tickets[t].status = "completed"
    /\ \E t \in DOMAIN tickets : tickets[t].status = "pending"

\* C14: when a user holding staff invokes the resolve action on a pending
\* ticket, the ticket's status becomes the terminal status (resolved or
\* completed) and the ticket is fetched again; the fetch that follows shows
\* the badge 'Resolved' and offers neither the reply form nor the button.
C14_ResolveLeavesPending ==
    /\ [][/\ "handler" \in DOMAIN op'
           /\ op'.handler = "handleResolveTicket"
           /\ has_role(op'.actor, "staff")
           /\ tickets[op'.target].status = "pending"
           => /\ tickets'[op'.target].status \in {"resolved", "completed"}
              /\ thread'.fetching]_vars
    /\ [][/\ "handler" \in DOMAIN op
           /\ op.handler = "handleResolveTicket"
           /\ op'.via = "fetchTicket"
           => /\ Badge' = "Resolved"
              /\ ~ReplyFormOffered'
              /\ ~ResolveButtonOffered']_vars

\* the steps of invite-staff in the order of its checks, and for each check
\* the responses and audit actions with which the invocation may end there
InviteOrder ==
    {<<"idle", "getUser">>, <<"getUser", "canInvite">>,
     <<"canInvite", "hasRole">>, <<"canInvite", "createUser">>,
     <<"hasRole", "createUser">>, <<"createUser", "insertRole">>,
     <<"done", "idle">>}
InviteEnds ==
    {<<"idle", 401, "invite_staff_no_auth">>,
     <<"getUser", 401, "invite_staff_invalid_token">>,
     <<"canInvite", 403, "invite_staff_privilege_escalation_attempt">>,
     <<"canInvite", 400, "invite_staff_invalid_role">>,
     <<"canInvite", 500, "none">>,
     <<"hasRole", 403, "invite_admin_escalation_attempt">>,
     <<"createUser", 400, "invite_staff_creation_failed">>,
     <<"insertRole", 500, "invite_staff_role_assignment_failed">>,
     <<"insertRole", 200, "invite_staff_success">>}

\* C24: invite-staff runs its checks in the order Authorization header,
\* token, can_invite_staff, role validity, admin guard, account creation,
\* role insert; the check at which it ends alone fixes the response and the
\* audit action; a caller without staff or admin ends at the permission
\* check with 403 whatever the body, and the body is read only after the
\* permission check has passed.
C24_ChecksInFixedOrder ==
    [][inv' # inv =>
         /\ inv'.pc # "done" => <<inv.pc, inv'.pc>> \in InviteOrder
         /\ inv'.pc = "done" =>
               \E e \in InviteEnds :
                  /\ e[1] = inv.pc /\ e[2] = inv'.status
                  /\ security_audit_log' # security_audit_log =>
                        /\ Len(security_audit_log') = Len(security_audit_log) + 1
                        /\ security_audit_log'[Len(security_audit_log')].action = e[3]
         /\ inv.pc = "canInvite" /\ ~can_invite_staff(inv.user) =>
               inv'.pc = "done" /\ inv'.status = 403 /\ inv'.body = NotRead
         /\ inv'.body # inv.body /\ inv'.pc # "idle" =>
               inv.pc = "canInvite" /\ can_invite_staff(inv.user)
         /\ inv.pc = "canInvite" /\ inv'.body # NotRead
               /\ inv'.body # Malformed /\ InvalidRole(inv'.body.role) =>
               inv'.pc = "done" /\ inv'.status = 400
         /\ inv.pc = "hasRole" => inv.body.role = "admin"
         /\ inv.pc = "createUser" /\ inv.body.role = "admin" =>
               has_role(inv.user, "admin")]_vars

C24_Witness ==
    /\ inv.pc = "done" /\ inv.status = 403 /\ inv.body = NotRead
    /\ inv.user # 0 /\ ~can_invite_staff(inv.user)
    /\ Len(security_audit_log) > 0
    /\ security_audit_log[Len(security_audit_log)].action =
          "invite_staff_privilege_escalation_attempt"

\* C25: the permission checks fail closed: an invocation gets past the
\* can_invite_staff check only if the caller holds staff or admin, and past
\* the admin guard only if the caller holds admin; every other outcome of
\* these calls, a failed call included, ends with 403 and creates no account
\* and no role row.
C25_PermissionChecksFailClosed ==
    [][inv' # inv =>
         /\ inv.pc = "canInvite" /\ ~(inv'.pc = "done" /\ inv'.status = 403) =>
               can_invite_staff(inv.user)
         /\ inv.pc = "hasRole" /\ ~(inv'.pc = "done" /\ inv'.status = 403) =>
               has_role(inv.user, "admin") /\ inv'.pc = "createUser"
         /\ inv.pc \in {"canInvite", "hasRole"} =>
               users' = users /\ user_roles' = user_roles]_vars

C25_Witness ==
    /\ inv.pc = "done" /\ inv.status = 403
    /\ inv.user = 1 /\ has_role(1, "admin") /\ inv.body = NotRead
    /\ users = <<adminEmail, staffEmail>>

\* C26: when two interleaved invocations of setup-demo-accounts, started
\* with neither demo account and failing only on an email already in use,
\* have both ended, there is exactly one account for admin@example.com and
\* it holds admin, exactly one for staff@example.com and it holds staff, and
\* one of the invocations has returned 200.
C26_ConcurrentSeedingConverges ==
    (\A p \in Seeders : seed[p].pc = "done") =>
        /\ Cardinality(UserByEmail(adminEmail)) = 1
        /\ Cardinality(UserByEmail(staffEmail)) = 1
        /\ \A u \in UserByEmail(adminEmail) : has_role(u, "admin")
        /\ \A u \in UserByEmail(staffEmail) : has_role(u, "staff")
        /\ \E p \in Seeders : seed[p].status = 200

C26_Witness ==
    /\ \A p \in Seeders : seed[p].pc = "done"
    /\ \E p, q \in Seeders :
          /\ seed[p].status = 500 /\ seed[q].status = 200
          /\ seed[p].adminUser # 0 /\ seed[q].staffUser # 0

\* C27: sending a message with attachments: every stored object was uploaded
\* for a message already inserted, under '<sender id>/<message id>/'; every
\* media_assets row names an object whose upload succeeded and references
\* the message its path names; uploads happen only while the handler is in
\* its loop; the step on which the handler fails changes no row and no
\* object, ends the handler and leaves the selected files and the typed text
\* as they were, so that the form can be sent again, and a send whose insert
\* succeeds adds a new message row.
C27_AttachmentsAfterMessage ==
    /\ [](\A name \in objects :
             /\ name[2][1] \in MessageIds
             /\ messages[name[2][1]].sender_id = name[1])
    /\ [](\A a \in MediaIds :
             /\ media_assets[a].storage_path \in objects
             /\ media_assets[a].storage_path[2][1] = media_assets[a].message_id)
    /\ [][objects' # objects => send.pc = "upload"]_vars
    /\ [][send.pc # "idle" /\ send'.toast = "Error sending message"
          => /\ messages' = messages
             /\ media_assets' = media_assets
             /\ objects' = objects
             /\ send'.pc = "idle"
             /\ selectedFiles' = selectedFiles
             /\ send'.newMessage = send.newMessage
             /\ send'.newMessage \/ Len(selectedFiles') > 0]_vars
    /\ [][send.pc = "insert" /\ send'.pc \in {"upload", "idle"}
             /\ send'.toast = "none"
          => messages' = Append(messages, [ticket_id |-> send.ticket,
                                           sender_id |-> send.user])]_vars

\* the second file of a message failed after the first was attached, and the
\* form was sent again: a second message row of the same sender
C27_Witness ==
    /\ Len(messages) = 2
    /\ messages[1] = messages[2]
    /\ Len(media_assets) = 1
    /\ media_assets[1].message_id = 1
    /\ send.pc = "upload"
    /\ send.message = 2
    /\ Len(send.files) = 2

\* C28: a ticket filed through the new-ticket form always has its initial
\* message: whenever no submission is in flight, every ticket has a message
\* sent by its student; and the page has navigated to a ticket only if that
\* ticket, its first message and a media_assets row for every selected file
\* exist.
C28_TicketHasInitialMessage ==
    /\ [](newTicket.pc = "idle"
          => \A t \in TicketIds :
                \E m \in MessageIds :
                   /\ messages[m].ticket_id = t
                   /\ messages[m].sender_id = tickets[t].student_id)
    /\ [][newTicket'.navigated # 0 /\ newTicket.pc # "idle"
          => /\ newTicket'.navigated \in DOMAIN tickets'
             /\ \E m \in DOMAIN messages' :
                   /\ messages'[m] =
                         [ticket_id |-> newTicket'.navigated,
                          sender_id |-> tickets'[newTicket'.navigated].student_id]
                   /\ Cardinality({a \in DOMAIN media_assets' :
                                      media_assets'[a].message_id = m})
                         = Len(newTicket.files)]_vars

\* C29: the busy flags are set exactly while their handler is in flight:
\* isLoading while handleSubmit runs, isSending while handleSendMessage runs,
\* isUploading while it runs with files; isResolving and loading are raised
\* only by the click that starts handleResolveTicket and handleInvite, and
\* are false after the step in which the request has answered, whatever the
\* answer.
C29_BusyFlagsReleased ==
    /\ [](newTicket.isLoading <=> newTicket.pc # "idle")
    /\ [](send.isSending <=> send.pc # "idle")
    /\ [](send.isUploading <=> send.pc # "idle" /\ Len(send.files) > 0)
    /\ [][~thread.isResolving /\ thread'.isResolving
          => op'.via = "handleResolveTicket"]_vars
    /\ [][op'.via = "ticket_update" => ~thread'.isResolving]_vars
    /\ [][~inviteForm.loading /\ inviteForm'.loading
          => op'.via = "handleInvite"]_vars
    /\ [][op'.via = "handleInviteDone" => ~inviteForm'.loading]_vars

\* each of the four handlers has ended with its error toast, and no flag is
\* set
C29_Witness ==
    /\ newTicket.toast = "Error creating ticket"
    /\ send.toast = "Error sending message"
    /\ thread.toast = "Error resolving ticket"
    /\ inviteForm.toast = "Error"
    /\ ~newTicket.isLoading /\ ~send.isSending /\ ~send.isUploading
    /\ ~thread.isResolving /\ ~inviteForm.loading

\* C21: the ticket thread converges to the stored messages: on an open
\* page with no notification undelivered, no fetch in flight and no fetch
\* failed, the list shown is the ticket's stored messages, oldest first.
C21_ThreadShowsStoredMessages ==
    /\ thread.id # 0
    /\ view.events = 0
    /\ view.fetches = {}
    /\ view.toast = "none"
    => view.messages = StoredMessages(thread.user, thread.id)

\* C22 as stated: the common issues are at most 10 entries with pairwise
\* distinct subjects and non-increasing counts, each count is the number of
\* filtered tickets with that subject, each percentage is exactly count /
\* total * 100 (here in hundredths of a percent), and no ticket gives no
\* entry.
C22_PercentageExact ==
    dash.kind = "commonIssues"
    => LET r == dash.commonIssues
           f == dash.filteredTickets
       IN  /\ Len(r) <= 10
           /\ \A i, j \in DOMAIN r : i < j => /\ r[i].subject # r[j].subject
                                              /\ r[i].count >= r[j].count
           /\ \A i \in DOMAIN r :
                 /\ r[i].count = Cardinality({k \in DOMAIN f :
                                                f[k] = r[i].subject})
                 /\ r[i].percentage * Len(f) = r[i].count * 10000
           /\ Len(f) = 0 => r = <<>>

\* C22, amended: as stated, except that each percentage is count / total *
\* 100 rounded to two decimals; and the entries are the subjects with the
\* highest counts, ten of them or all if there are fewer.
C22_CommonIssuesGrouped ==
    dash.kind = "commonIssues"
    => LET r == dash.commonIssues
           f == dash.filteredTickets
           Count(subject) == Cardinality({k \in DOMAIN f : f[k] = subject})
           subjects == {f[k] : k \in DOMAIN f}
       IN  /\ Len(r) <= 10
           /\ Len(r) = IF Cardinality(subjects) < 10
                       THEN Cardinality(subjects) ELSE 10
           /\ \A i, j \in DOMAIN r : i < j => /\ r[i].subject # r[j].subject
                                              /\ r[i].count >= r[j].count
           /\ \A i \in DOMAIN r :
                 /\ r[i].count = Count(r[i].subject)
                 /\ r[i].count > 0
                 /\ 2 * (r[i].percentage * Len(f) - r[i].count * 10000)
                       <= Len(f)
                 /\ 2 * (r[i].count * 10000 - r[i].percentage * Len(f))
                       <= Len(f)
                 /\ \A subject \in subjects \ {r[j].subject : j \in DOMAIN r} :
                       Count(subject) <= r[i].count
           /\ Len(f) = 0 => r = <<>>

\* eleven subjects, the last of which has three tickets: it comes first, ten
\* entries are kept and its percentage 3 / 13 * 100 is rounded to 23.08
C22_Witness ==
    /\ dash.kind = "commonIssues"
    /\ Len(dash.filteredTickets) = 13
    /\ Len(dash.commonIssues) = 10
    /\ dash.commonIssues[1] = [subject |-> 11, count |-> 3, percentage |-> 2308]


\* the tickets with at least one message sent by profile whose status
\* passes the status filter
HandledTickets(profile, status) ==
    {t \in TicketIds :
        /\ status = "all" \/ tickets[t].status = status
        /\ \E m \in MessageIds : /\ messages[m].sender_id = profile
                                 /\ messages[m].ticket_id = t}

C30_StatusCountsPartition ==
    /\ dash.kind = "StaffDashboard" =>
          /\ Cardinality(dash.pendingTickets)
                + Cardinality(dash.resolvedTickets)
                = Cardinality(dash.tickets)
          /\ \A t \in dash.tickets :
                (t \in dash.pendingTickets) # (t \in dash.resolvedTickets)
    /\ dash.kind = "metrics" =>
          dash.pending + dash.resolved = dash.total

====
